---- MODULE Spec2Model ----
(***************************************************************************)
(* Model of the companion agent "Emma": the knowledge graph store          *)
(* (graph_memory.py), keyword extraction and the proactive policy          *)
(* (simple_agent.py), and the handlers that drive them (app.py).           *)
(*                                                                         *)
(* Strings are TLA+ strings handled character by character (Len, SubSeq,   *)
(* Head, Tail, \o).  The clock counts whole seconds; datetime.now() reads  *)
(* the variable now.                                                       *)
(***************************************************************************)
EXTENDS Integers, Sequences, FiniteSets, TLC

VARIABLES
    now,                  \* the wall clock read by datetime.now(), in seconds
    steps,                \* number of clock advances and user inputs (chat
                          \* messages, button presses) so far (bounds the run)
    graph,                \* GraphMemory.graph: [order, nodes, edges]
    conversation_history, \* SimpleAgent.conversation_history
    important_memories,   \* SimpleAgent.important_memories (follow-up queue)
    last_interaction,     \* SimpleAgent.last_interaction
    messages,             \* st.session_state.messages (what the chat shows)
    call                  \* the last handler run that changed the state, its
                          \* input and its result

vars == <<now, steps, graph, conversation_history, important_memories,
          last_interaction, messages, call>>


(***************************************************************************)
(* Bounds of the model.                                                    *)
(***************************************************************************)
MaxSteps == 3
MaxStoreOps == 3
\* the greatest max_depth the properties ask for
MaxDepth == 2
\* the greatest top_k the properties ask for
MaxTopK == 2
\* the number of messages of a long conversation
MaxTurns == 7

(***************************************************************************)
(* config.py                                                               *)
(***************************************************************************)
GENERAL_CHECKIN_MINUTES == 2
MEMORY_FOLLOWUP_MINUTES == 1
MAX_CONVERSATION_CONTEXT == 6

IMPORTANT_KEYWORDS ==
    << "meeting", "appointment", "interview", "date", "deadline", "exam",
       "test", "presentation",
       "friend", "family", "mom", "dad", "sister", "brother", "boyfriend",
       "girlfriend", "partner",
       "stressed", "worried", "excited", "nervous", "happy", "sad",
       "anxious", "tired", "overwhelmed",
       "job", "work", "school", "vacation", "trip", "birthday",
       "anniversary", "graduation",
       "doctor", "sick", "medicine", "exercise", "diet", "sleep",
       "therapy" >>

(***************************************************************************)
(* Python string operations.                                               *)
(***************************************************************************)
UpperChars == "ABCDEFGHIJKLMNOPQRSTUVWXYZ"
LowerChars == "abcdefghijklmnopqrstuvwxyz"
DigitChars == "0123456789"

Char(s, i) == SubSeq(s, i, i)

\* str.isupper() of one character
IsUpperChar(c) == \E i \in 1..Len(UpperChars) : Char(UpperChars, i) = c

\* str.lower() of one character
LowerChar(c) ==
    IF IsUpperChar(c)
    THEN Char(LowerChars, CHOOSE i \in 1..Len(UpperChars) : Char(UpperChars, i) = c)
    ELSE c

\* str.lower(): every character lower-cased (the string is halved at each
\* step)
RECURSIVE Lower(_)
Lower(s) ==
    IF Len(s) = 0 THEN ""
    ELSE IF Len(s) = 1 THEN LowerChar(s)
    ELSE Lower(SubSeq(s, 1, Len(s) \div 2))
         \o Lower(SubSeq(s, (Len(s) \div 2) + 1, Len(s)))

\* the Python test `sub in s` on strings
Contains(s, sub) ==
    \E i \in 0..(Len(s) - Len(sub)) : SubSeq(s, i + 1, i + Len(sub)) = sub

IsSpace(c) == c \in {" ", "\t", "\n"}

\* the positions where a word of s starts: a non-whitespace character at
\* the start of s or after a whitespace character
WordStarts(s) ==
    {i \in 1..Len(s) : ~IsSpace(Char(s, i)) /\ (i = 1 \/ IsSpace(Char(s, i - 1)))}

\* the word of s that starts at position i: up to the next whitespace
WordAt(s, i) ==
    LET stops == {j \in i..Len(s) : j = Len(s) \/ IsSpace(Char(s, j + 1))}
        last  == CHOOSE j \in stops : \A k \in stops : j <= k
    IN  SubSeq(s, i, last)

\* str.split(): the maximal runs of non-whitespace characters, in order
Split(s) ==
    LET starts == WordStarts(s)
        nth(k) == CHOOSE i \in starts : Cardinality({j \in starts : j <= i}) = k
    IN  [k \in 1..Cardinality(starts) |-> WordAt(s, nth(k))]

\* decimal rendering of a natural number
RECURSIVE Digits(_)
Digits(n) ==
    IF n < 10 THEN Char(DigitChars, n + 1)
    ELSE Digits(n \div 10) \o Char(DigitChars, (n % 10) + 1)

RECURSIVE ZeroPad(_, _)
ZeroPad(s, w) == IF Len(s) >= w THEN s ELSE ZeroPad("0" \o s, w)

(***************************************************************************)
(* datetime: the clock is in seconds.  The renderings below keep what the  *)
(* code relies on: strftime('%Y%m%d_%H%M%S') is the same string exactly    *)
(* for two instants of the same second, strftime('%Y%m%d') exactly for two *)
(* instants of the same day, and isoformat() is fixed-width, so that its   *)
(* string order is the order of time.                                      *)
(***************************************************************************)
Minutes(m) == m * 60

DayOf(t) == t \div 86400

SecondOfDay(t) == t % 86400

\* datetime.isoformat()
IsoFormat(t) == ZeroPad(Digits(DayOf(t)), 2) \o "T" \o ZeroPad(Digits(SecondOfDay(t)), 5)

\* datetime.strftime('%Y%m%d')
StrfDay(t) == ZeroPad(Digits(DayOf(t)), 2)

\* datetime.strftime('%H:%M:%S')
StrfTime(t) == ZeroPad(Digits(SecondOfDay(t)), 5)

\* datetime.strftime('%Y%m%d_%H%M%S')
StrfSecond(t) == StrfDay(t) \o "_" \o ZeroPad(Digits(SecondOfDay(t)), 5)

(***************************************************************************)
(* Python dict helpers.  An attribute dict is a function from key strings  *)
(* to string values.                                                       *)
(***************************************************************************)
EmptyDict == <<>>

\* dict.update(): keys of new overwrite, all other keys of old stay
Update(old, new) == new @@ old

\* dict.get(key, default)
Get(d, k, default) == IF k \in DOMAIN d THEN d[k] ELSE default

Range(s) == {s[i] : i \in DOMAIN s}

(***************************************************************************)
(* The inputs of the model: the user messages, the steps of the clock.     *)
(***************************************************************************)
Messages ==
    { "I have a meeting with Sarah tomorrow",
      "My friend USER is stressed",
      "hello there" }

ExtractMessages ==
    { "I have a meeting with Sarah tomorrow",
      "My friend USER is stressed",
      "so stressed about work",
      "Work makes me Sad said my brother Bob",
      "the latest update",
      "feeling tired",
      "I got the job",
      "I miss Dad",
      "another meeting",
      "hello there",
      "" }

AllMessages == Messages \cup ExtractMessages

\* the clock advances by one minute or by just over the check-in interval
TickSteps == {60, 121}

(***************************************************************************)
(* The string computations on the messages, tabulated once over the        *)
(* messages of the model.                                                  *)
(***************************************************************************)
\* for each message the indexes i with IMPORTANT_KEYWORDS[i] in message.lower()
KeywordsInTable ==
    [m \in AllMessages |->
        {i \in 1..Len(IMPORTANT_KEYWORDS) : Contains(Lower(m), IMPORTANT_KEYWORDS[i])}]

\* `keyword in message_lower` for keyword = IMPORTANT_KEYWORDS[i]
KeywordInMessage(i, user_message) ==
    IF user_message \in AllMessages THEN i \in KeywordsInTable[user_message]
    ELSE Contains(Lower(user_message), IMPORTANT_KEYWORDS[i])

WordsTable == [m \in AllMessages |-> Split(m)]

\* user_message.split()
Words(user_message) ==
    IF user_message \in AllMessages THEN WordsTable[user_message]
    ELSE Split(user_message)

(***************************************************************************)
(* graph_memory.py: GraphMemory.  A graph value is a record                *)
(*   order : the node identifiers in insertion order (dict order),         *)
(*   nodes : identifier -> attribute dict,                                 *)
(*   edges : <<source, target>> -> attribute dict  (nx.DiGraph keeps one   *)
(*           edge per ordered pair),                                       *)
(*   eorder: the edges in insertion order (adjacency dict order).          *)
(***************************************************************************)
USER == "USER"

\* GraphMemory.__init__ at time t
NewGraph(t) ==
    [order |-> <<USER>>,
     nodes |-> (USER :> [type |-> "user", created_at |-> IsoFormat(t)]),
     edges |-> <<>>,
     eorder |-> <<>>]

HasNode(g, n) == n \in DOMAIN g.nodes

HasEdge(g, u, v) == <<u, v>> \in DOMAIN g.edges

\* nx.DiGraph.add_node(n, **attrs): a new node is appended, an existing
\* node's attribute dict is updated
NxAddNode(g, n, attrs) ==
    IF HasNode(g, n)
    THEN [g EXCEPT !.nodes = [@ EXCEPT ![n] = Update(@, attrs)]]
    ELSE [g EXCEPT !.order = Append(@, n),
                   !.nodes = (n :> attrs) @@ @]

\* an add_edge that keeps the attributes an existing edge already has
NxAddEdge_KeepsFirst(g, u, v, attrs) ==
    LET g1 == IF HasNode(g, u) THEN g ELSE NxAddNode(g, u, EmptyDict)
        g2 == IF HasNode(g1, v) THEN g1 ELSE NxAddNode(g1, v, EmptyDict)
    IN  IF HasEdge(g2, u, v)
        THEN [g2 EXCEPT !.edges = [@ EXCEPT ![<<u, v>>] = Update(attrs, @)]]
        ELSE [g2 EXCEPT !.edges = (<<u, v>> :> attrs) @@ @,
                        !.eorder = Append(@, <<u, v>>)]

\* nx.DiGraph.add_edge(u, v, **attrs): missing endpoints are added bare,
\* an existing edge's attribute dict is updated
NxAddEdge(g, u, v, attrs) ==
    LET g1 == IF HasNode(g, u) THEN g ELSE NxAddNode(g, u, EmptyDict)
        g2 == IF HasNode(g1, v) THEN g1 ELSE NxAddNode(g1, v, EmptyDict)
    IN  IF HasEdge(g2, u, v)
        THEN [g2 EXCEPT !.edges = [@ EXCEPT ![<<u, v>>] = Update(@, attrs)]]
        ELSE [g2 EXCEPT !.edges = (<<u, v>> :> attrs) @@ @,
                        !.eorder = Append(@, <<u, v>>)]

\* a store that replaces the attribute dict of an existing node
add_entity_Replaces(g, entity_name, entity_type, attributes, t) ==
    LET a2 == ("type" :> entity_type) @@ ("created_at" :> IsoFormat(t))
              @@ attributes
    IN  IF HasNode(g, entity_name)
        THEN [g EXCEPT !.nodes = [@ EXCEPT ![entity_name] = a2]]
        ELSE NxAddNode(g, entity_name, a2)

\* a store that leaves a node it already holds as it is
add_entity_KeepsFirst(g, entity_name, entity_type, attributes, t) ==
    IF HasNode(g, entity_name) THEN g
    ELSE NxAddNode(g, entity_name,
                   ("type" :> entity_type) @@ ("created_at" :> IsoFormat(t))
                   @@ attributes)

\* GraphMemory.add_entity(entity_name, entity_type, attributes) at time t
add_entity(g, entity_name, entity_type, attributes, t) ==
    LET a1 == IF "created_at" \in DOMAIN attributes
              THEN attributes
              ELSE ("created_at" :> IsoFormat(t)) @@ attributes
        a2 == ("type" :> entity_type) @@ a1
    IN  IF HasNode(g, entity_name)
        THEN [g EXCEPT !.nodes = [@ EXCEPT ![entity_name] = Update(@, a2)]]
        ELSE NxAddNode(g, entity_name, a2)

\* a store that links without creating the missing endpoints itself
add_relationship_NoEndpoints(g, from_entity, to_entity, relation_type, attributes, t) ==
    NxAddEdge(g, from_entity, to_entity,
              ("relation_type" :> relation_type) @@
              ("created_at" :> IsoFormat(t)) @@ attributes)

\* a store that stores both endpoints as unknown before it links them
add_relationship_Retypes(g, from_entity, to_entity, relation_type, attributes, t) ==
    LET a  == ("relation_type" :> relation_type) @@
              ("created_at" :> IsoFormat(t)) @@ attributes
        g1 == add_entity(g, from_entity, "unknown", EmptyDict, t)
        g2 == add_entity(g1, to_entity, "unknown", EmptyDict, t)
    IN  NxAddEdge(g2, from_entity, to_entity, a)

\* GraphMemory.add_relationship(from_entity, to_entity, relation_type,
\* attributes) at time t
add_relationship(g, from_entity, to_entity, relation_type, attributes, t) ==
    LET a  == ("relation_type" :> relation_type) @@
              ("created_at" :> IsoFormat(t)) @@ attributes
        g1 == IF HasNode(g, from_entity) THEN g
              ELSE add_entity(g, from_entity, "unknown", EmptyDict, t)
        g2 == IF HasNode(g1, to_entity) THEN g1
              ELSE add_entity(g1, to_entity, "unknown", EmptyDict, t)
    IN  NxAddEdge(g2, from_entity, to_entity, a)

\* a loop that draws the "knows" edge from the memory node
RECURSIVE AddEntities_KnowsFromMemory(_, _, _, _, _)
AddEntities_KnowsFromMemory(g, message_id, entities, i, t) ==
    IF i > Len(entities) THEN g
    ELSE LET entity == entities[i]
             g1 == add_entity(g, entity.name, entity.type, entity.attributes, t)
             g2 == add_relationship(g1, message_id, entity.name, "mentions",
                                    EmptyDict, t)
             g3 == IF entity.type \in {"person", "family", "friend"}
                   THEN add_relationship(g2, message_id, entity.name, "knows",
                                         EmptyDict, t)
                   ELSE g2
         IN  AddEntities_KnowsFromMemory(g3, message_id, entities, i + 1, t)

\* the loop over extracted_info['entities'] of add_memory_from_message
RECURSIVE AddEntities(_, _, _, _, _)
AddEntities(g, message_id, entities, i, t) ==
    IF i > Len(entities) THEN g
    ELSE LET entity == entities[i]
             g1 == add_entity(g, entity.name, entity.type, entity.attributes, t)
             g2 == add_relationship(g1, message_id, entity.name, "mentions",
                                    EmptyDict, t)
             g3 == IF entity.type \in {"person", "family", "friend"}
                   THEN add_relationship(g2, USER, entity.name, "knows",
                                         EmptyDict, t)
                   ELSE g2
         IN  AddEntities(g3, message_id, entities, i + 1, t)

\* the loop over extracted_info['relations'] of add_memory_from_message
RECURSIVE AddRelations(_, _, _, _)
AddRelations(g, relations, i, t) ==
    IF i > Len(relations) THEN g
    ELSE LET relation == relations[i]
         IN  AddRelations(
                 add_relationship(g, relation.from, relation.to, relation.type,
                                  Get(relation, "attributes", EmptyDict), t),
                 relations, i + 1, t)

\* the identifier add_memory_from_message gives the memory node at time t
MessageId(t) == "memory_" \o StrfSecond(t)

\* GraphMemory.add_memory_from_message(user_message, extracted_info) at time t
add_memory_from_message(g, user_message, extracted_info, t) ==
    LET keyword    == Get(extracted_info, "keyword", "general")
        message_id == MessageId(t)
        g1 == add_entity(g, message_id, "memory",
                         [content |-> user_message, keyword |-> keyword,
                          timestamp |-> IsoFormat(t)], t)
        g2 == add_relationship(g1, USER, message_id, "has_memory", EmptyDict, t)
        g3 == AddEntities(g2, message_id,
                          Get(extracted_info, "entities", <<>>), 1, t)
    IN  AddRelations(g3, Get(extracted_info, "relations", <<>>), 1, t)

\* the successors of node u, in adjacency order
RECURSIVE SuccessorsFrom(_, _, _)
SuccessorsFrom(g, u, i) ==
    IF i > Len(g.eorder) THEN <<>>
    ELSE (IF g.eorder[i][1] = u THEN <<g.eorder[i][2]>> ELSE <<>>)
         \o SuccessorsFrom(g, u, i + 1)

Successors(g, u) == SuccessorsFrom(g, u, 1)

\* appends to seen the elements of cand that are not yet in it
RECURSIVE AppendNew(_, _, _)
AppendNew(seen, cand, i) ==
    IF i > Len(cand) THEN seen
    ELSE AppendNew(IF cand[i] \in Range(seen) THEN seen ELSE Append(seen, cand[i]),
                   cand, i + 1)

\* the nodes found by expanding every node of one BFS level, in order
RECURSIVE ExpandLevel(_, _, _, _)
ExpandLevel(g, level, i, seen) ==
    IF i > Len(level) THEN seen
    ELSE ExpandLevel(g, level, i + 1, AppendNew(seen, Successors(g, level[i]), 1))

\* nx.single_source_shortest_path_length(G, source, cutoff): the visited
\* nodes in BFS order, each with its level.  found lists <<node, distance>>.
RECURSIVE BfsLevels(_, _, _, _, _)
BfsLevels(g, level, d, cutoff, found) ==
    LET seen  == [i \in 1..Len(found) |-> found[i][1]]
        seen2 == ExpandLevel(g, level, 1, seen)
        next  == SubSeq(seen2, Len(seen) + 1, Len(seen2))
    IN  IF d >= cutoff \/ next = <<>> THEN found
        ELSE BfsLevels(g, next, d + 1, cutoff,
                       found \o [i \in 1..Len(next) |-> <<next[i], d + 1>>])

\* a search that ignores the cutoff
ShortestPathLength_NoCutoff(g, source, cutoff) ==
    BfsLevels(g, <<source>>, 0, cutoff + Len(g.order), << <<source, 0>> >>)

ShortestPathLength(g, source, cutoff) ==
    BfsLevels(g, <<source>>, 0, cutoff, << <<source, 0>> >>)

\* order of characters (ASCII order of the characters the model uses)
CharOrder == " 0123456789:ABCDEFGHIJKLMNOPQRSTUVWXYZ_abcdefghijklmnopqrstuvwxyz"

CharCode(c) ==
    IF \E i \in 1..Len(CharOrder) : Char(CharOrder, i) = c
    THEN CHOOSE i \in 1..Len(CharOrder) : Char(CharOrder, i) = c
    ELSE 0

\* Python's < on strings
RECURSIVE StrLess(_, _)
StrLess(a, b) ==
    IF b = "" THEN FALSE
    ELSE IF a = "" THEN TRUE
    ELSE IF Head(a) = Head(b) THEN StrLess(Tail(a), Tail(b))
    ELSE CharCode(Head(a)) < CharCode(Head(b))

\* a sort key without the timestamp
KeyLess_DistanceOnly(x, y) == x.distance < y.distance

\* the sort key (distance, timestamp): x sorts strictly before y
KeyLess(x, y) ==
    \/ x.distance < y.distance
    \/ x.distance = y.distance /\ StrLess(x.timestamp, y.timestamp)

\* list.sort(key=..., reverse=True): descending, equal keys keep their order
RECURSIVE InsertDesc(_, _)
InsertDesc(sorted, x) ==
    IF sorted = <<>> THEN <<x>>
    ELSE IF KeyLess(Head(sorted), x) THEN <<x>> \o sorted
    ELSE <<Head(sorted)>> \o InsertDesc(Tail(sorted), x)

RECURSIVE SortDesc(_, _, _)
SortDesc(xs, i, acc) ==
    IF i > Len(xs) THEN acc ELSE SortDesc(xs, i + 1, InsertDesc(acc, xs[i]))

\* the memory records get_related_memories collects from the BFS result
RECURSIVE CollectMemories(_, _, _)
CollectMemories(g, nearby, i) ==
    IF i > Len(nearby) THEN <<>>
    ELSE LET node      == nearby[i][1]
             node_data == g.nodes[node]
         IN  (IF Get(node_data, "type", "") = "memory"
              THEN << [id |-> node,
                       content |-> Get(node_data, "content", ""),
                       keyword |-> Get(node_data, "keyword", ""),
                       timestamp |-> Get(node_data, "timestamp", ""),
                       distance |-> nearby[i][2]] >>
              ELSE <<>>)
             \o CollectMemories(g, nearby, i + 1)

\* GraphMemory.get_related_memories(entity, max_depth)
get_related_memories(g, entity, max_depth) ==
    IF ~HasNode(g, entity) THEN <<>>
    ELSE SortDesc(CollectMemories(g, ShortestPathLength(g, entity, max_depth), 1),
                  1, <<>>)

\* statistics that count every node as a memory
get_graph_stats_CountsAll(g) ==
    [total_nodes |-> Cardinality(DOMAIN g.nodes),
     total_edges |-> Cardinality(DOMAIN g.edges),
     entities_by_type |-> EmptyDict,
     total_memories |-> Cardinality(DOMAIN g.nodes)]

\* GraphMemory.get_graph_stats()
get_graph_stats(g) ==
    LET types == {Get(g.nodes[n], "type", "unknown") : n \in DOMAIN g.nodes}
    IN  [total_nodes |-> Cardinality(DOMAIN g.nodes),
         total_edges |-> Cardinality(DOMAIN g.edges),
         entities_by_type |->
             [ty \in types |->
                 Cardinality({n \in DOMAIN g.nodes :
                                 Get(g.nodes[n], "type", "unknown") = ty})],
         total_memories |->
             Cardinality({n \in DOMAIN g.nodes :
                             Get(g.nodes[n], "type", "unknown") = "memory"})]

(***************************************************************************)
(* export_graph / import_graph.  A JSON object is written as the sequence  *)
(* of its <<key, value>> members and read back as a dict in which a later  *)
(* member overrides an earlier one of the same key; strings, booleans and  *)
(* lists are written and read as they are.  A file is a record             *)
(*   [parses |-> TRUE, value |-> the JSON value]  or  [parses |-> FALSE].  *)
(***************************************************************************)
\* the members of dict d, one <<key, value>> per key
RECURSIVE JsonMembers(_)
JsonMembers(d) ==
    IF DOMAIN d = {} THEN <<>>
    ELSE LET k == CHOOSE x \in DOMAIN d : TRUE
         IN  << <<k, d[k]>> >> \o JsonMembers([x \in DOMAIN d \ {k} |-> d[x]])

\* the dict a sequence of members is read as
JsonObject(members) ==
    [k \in {members[i][1] : i \in 1..Len(members)} |->
        members[CHOOSE i \in 1..Len(members) :
                    /\ members[i][1] = k
                    /\ \A j \in (i + 1)..Len(members) : members[j][1] # k][2]]

\* the edges of g in the order nx lists them: by source node, then by
\* insertion
EdgesInOrder(g) ==
    LET from(i) == LET u  == g.order[i]
                       vs == Successors(g, u)
                   IN  [j \in 1..Len(vs) |-> <<u, vs[j]>>]
        F[i \in 0..Len(g.order)] == IF i = 0 THEN <<>> ELSE F[i - 1] \o from(i)
    IN  F[Len(g.order)]

\* a writer that drops the attributes of the edges
node_link_data_NoEdgeAttributes(g) ==
    [directed |-> TRUE,
     multigraph |-> FALSE,
     graph |-> EmptyDict,
     nodes |-> [i \in 1..Len(g.order) |->
                   ("id" :> g.order[i]) @@ g.nodes[g.order[i]]],
     links |-> LET es == EdgesInOrder(g)
               IN  [i \in 1..Len(es) |->
                      ("source" :> es[i][1]) @@ ("target" :> es[i][2])]]

\* nx.node_link_data(G): {**attrs, "id": n} per node and
\* {**attrs, "source": u, "target": v} per edge
node_link_data(g) ==
    [directed |-> TRUE,
     multigraph |-> FALSE,
     graph |-> EmptyDict,
     nodes |-> [i \in 1..Len(g.order) |->
                   ("id" :> g.order[i]) @@ g.nodes[g.order[i]]],
     links |-> LET es == EdgesInOrder(g)
               IN  [i \in 1..Len(es) |->
                      ("source" :> es[i][1]) @@ ("target" :> es[i][2])
                      @@ g.edges[es[i]]]]

\* json.dump(data, f): the file written
JsonDump(data) ==
    [parses |-> TRUE,
     value |-> [k \in DOMAIN data |->
                   IF k \in {"nodes", "links"}
                   THEN [i \in 1..Len(data[k]) |-> JsonMembers(data[k][i])]
                   ELSE data[k]]]

\* json.load(f): the data read, or the error raised on text that is no JSON
JsonLoad(file) ==
    IF ~file.parses THEN [raises |-> TRUE, data |-> EmptyDict]
    ELSE [raises |-> FALSE,
          data |-> [k \in DOMAIN file.value |->
                       IF k \in {"nodes", "links"}
                       THEN [i \in 1..Len(file.value[k]) |->
                                JsonObject(file.value[k][i])]
                       ELSE file.value[k]]]

\* nx.DiGraph()
EmptyGraph == [order |-> <<>>, nodes |-> <<>>, edges |-> <<>>, eorder |-> <<>>]

Without(d, keys) == [k \in DOMAIN d \ keys |-> d[k]]

\* the loop over data["nodes"] of nx.node_link_graph
RECURSIVE LoadNodes(_, _, _)
LoadNodes(g, nodes, i) ==
    IF i > Len(nodes) THEN g
    ELSE LoadNodes(NxAddNode(g, nodes[i]["id"], Without(nodes[i], {"id"})),
                   nodes, i + 1)

\* the loop over data["links"] of nx.node_link_graph: d["source"] and
\* d["target"] raise KeyError on a link without them
RECURSIVE LoadLinks(_, _, _)
LoadLinks(g, links, i) ==
    IF i > Len(links) THEN [graph |-> g, raises |-> FALSE]
    ELSE IF ~({"source", "target"} \subseteq DOMAIN links[i])
         THEN [graph |-> g, raises |-> TRUE]
         ELSE LoadLinks(NxAddEdge(g, links[i]["source"], links[i]["target"],
                                  Without(links[i], {"source", "target"})),
                        links, i + 1)

\* nx.node_link_graph(data): the graph built so far and whether it raised
node_link_graph(data) ==
    IF ~({"nodes", "links"} \subseteq DOMAIN data)
    THEN [graph |-> EmptyGraph, raises |-> TRUE]
    ELSE LoadLinks(LoadNodes(EmptyGraph, data.nodes, 1), data.links, 1)

\* GraphMemory.export_graph(filepath): the file written
export_graph(g) == JsonDump(node_link_data(g))

\* an import that keeps what was built when the load fails
import_graph_Partial(g, file) ==
    LET loaded == JsonLoad(file)
    IN  IF loaded.raises THEN [graph |-> EmptyGraph, raises |-> TRUE]
        ELSE node_link_graph(loaded.data)

\* GraphMemory.import_graph(filepath): the graph afterwards and whether the
\* call raised; self.graph is assigned only when nothing raised before
import_graph(g, file) ==
    LET loaded == JsonLoad(file)
    IN  IF loaded.raises THEN [graph |-> g, raises |-> TRUE]
        ELSE LET built == node_link_graph(loaded.data)
             IN  IF built.raises THEN [graph |-> g, raises |-> TRUE]
                 ELSE [graph |-> built.graph, raises |-> FALSE]

(***************************************************************************)
(* simple_agent.py: SimpleAgent.  An agent value st is a record with the   *)
(* fields conversation_history, important_memories, last_interaction and   *)
(* graph_memory (the graph value of its GraphMemory).                      *)
(***************************************************************************)

\* an extraction without the stopword list
RECURSIVE PersonEntities_NoStopwords(_, _, _)
PersonEntities_NoStopwords(words, i, keyword) ==
    IF i > Len(words) THEN <<>>
    ELSE (IF words[i] # "" /\ IsUpperChar(Head(words[i]))
          THEN << [name |-> words[i], type |-> "person",
                   attributes |-> [relation |-> keyword]] >>
          ELSE <<>>)
         \o PersonEntities_NoStopwords(words, i + 1, keyword)

\* the person entities _add_to_graph_memory makes of the capitalized words
RECURSIVE PersonEntities(_, _, _)
PersonEntities(words, i, keyword) ==
    IF i > Len(words) THEN <<>>
    ELSE LET word == words[i]
         IN  (IF word # "" /\ IsUpperChar(Head(word))
                 /\ Lower(word) \notin {"i", "the", "a", "an"}
              THEN << [name |-> word, type |-> "person",
                       attributes |-> [relation |-> keyword]] >>
              ELSE <<>>)
             \o PersonEntities(words, i + 1, keyword)

\* the extracted_info _add_to_graph_memory builds for a keyword at time t
ExtractedInfo(user_message, keyword, t) ==
    IF keyword \in {"friend", "family", "mom", "dad", "sister", "brother"}
    THEN [keyword |-> keyword,
          entities |-> PersonEntities(Words(user_message), 1, keyword),
          relations |-> <<>>]
    ELSE IF keyword \in {"meeting", "interview", "exam", "presentation",
                         "appointment"}
    THEN [keyword |-> keyword,
          entities |-> << [name |-> keyword \o "_" \o StrfDay(t),
                           type |-> "event",
                           attributes |-> [event_type |-> keyword,
                                           description |-> user_message]] >>,
          relations |-> <<>>]
    ELSE IF keyword \in {"stressed", "worried", "excited", "nervous", "happy",
                         "sad", "anxious"}
    THEN [keyword |-> keyword,
          entities |-> << [name |-> keyword, type |-> "emotion",
                           attributes |-> [context |-> user_message]] >>,
          relations |-> << [from |-> "USER", to |-> keyword, type |-> "feels"] >>]
    ELSE IF keyword \in {"job", "work", "school"}
    THEN [keyword |-> keyword,
          entities |-> << [name |-> keyword, type |-> "topic",
                           attributes |-> [context |-> user_message]] >>,
          relations |-> <<>>]
    ELSE [keyword |-> keyword, entities |-> <<>>, relations |-> <<>>]

\* SimpleAgent._add_to_graph_memory(user_message, keyword) at time t
add_to_graph_memory(g, user_message, keyword, t) ==
    add_memory_from_message(g, user_message,
                            ExtractedInfo(user_message, keyword, t), t)

\* an item whose follow-up falls due a minute after the check-in interval
FollowUpItem_Late(user_message, keyword, t) ==
    [content |-> user_message,
     keyword |-> keyword,
     timestamp |-> t,
     follow_up_needed |-> TRUE,
     follow_up_after |-> t + Minutes(GENERAL_CHECKIN_MINUTES + 1)]

\* the follow-up item extract_important_info appends
FollowUpItem(user_message, keyword, t) ==
    [content |-> user_message,
     keyword |-> keyword,
     timestamp |-> t,
     follow_up_needed |-> TRUE,
     follow_up_after |-> t + Minutes(MEMORY_FOLLOWUP_MINUTES)]

\* the body of the keyword loop for a keyword that occurs in the message
RememberKeyword(st, user_message, keyword, t) ==
    [st EXCEPT
        !.important_memories = Append(@, FollowUpItem(user_message, keyword, t)),
        !.graph_memory = add_to_graph_memory(@, user_message, keyword, t)]

\* the loop `for keyword in important_keywords: if keyword in message_lower:
\* ...; break` from index i on: the index of the keyword at which the loop
\* body runs and breaks, 0 when the loop runs to its end
RECURSIVE KeywordLoop(_, _)
KeywordLoop(user_message, i) ==
    IF i > Len(IMPORTANT_KEYWORDS) THEN 0
    ELSE IF KeywordInMessage(i, user_message) THEN i
    ELSE KeywordLoop(user_message, i + 1)

\* the loop body run for every keyword of hits in turn, least index first
RECURSIVE RememberEach(_, _, _, _)
RememberEach(st, user_message, hits, t) ==
    IF hits = {} THEN st
    ELSE LET i == CHOOSE j \in hits : \A k \in hits : j <= k
         IN  RememberEach(
                 RememberKeyword(st, user_message, IMPORTANT_KEYWORDS[i], t),
                 user_message, hits \ {i}, t)

\* an extraction without the break: every keyword that occurs is remembered
extract_important_info_NoBreak(st, user_message, t) ==
    RememberEach(st, user_message,
                 {i \in 1..Len(IMPORTANT_KEYWORDS) : KeywordInMessage(i, user_message)},
                 t)

\* SimpleAgent.extract_important_info(user_message) at time t
\* an extraction that remembers a message without keyword as "general"
extract_important_info_Always(st, user_message, t) ==
    LET hit == KeywordLoop(user_message, 1)
    IN  RememberKeyword(st, user_message,
                        IF hit = 0 THEN "general" ELSE IMPORTANT_KEYWORDS[hit], t)

extract_important_info(st, user_message, t) ==
    LET hit == KeywordLoop(user_message, 1)
    IN  IF hit = 0 THEN st
        ELSE RememberKeyword(st, user_message, IMPORTANT_KEYWORDS[hit], t)

\* memory.get('follow_up_needed') and now >= memory.get('follow_up_after', now)
IsDue(memory, t) == memory.follow_up_needed /\ t >= memory.follow_up_after

\* a policy that sends as soon as a follow-up is due
should_send_DueFirst(st, t) ==
    [st  |-> st,
     ret |-> \/ \E i \in 1..Len(st.important_memories) :
                    IsDue(st.important_memories[i], t)
             \/ t - st.last_interaction > Minutes(GENERAL_CHECKIN_MINUTES)]

\* a policy check that marks the due follow-ups it finds
should_send_Marks(st, t) ==
    [st  |-> [st EXCEPT !.important_memories =
                 [i \in 1..Len(@) |->
                     IF IsDue(@[i], t)
                     THEN [@[i] EXCEPT !.follow_up_needed = FALSE]
                     ELSE @[i]]],
     ret |-> t - st.last_interaction > Minutes(GENERAL_CHECKIN_MINUTES)]

\* SimpleAgent.should_send_proactive_message() at time t: the agent
\* afterwards (it assigns nothing) and the boolean returned
should_send_proactive_message(st, t) ==
    LET time_since_last == t - st.last_interaction
    IN  [st  |-> st,
         ret |-> IF time_since_last > Minutes(GENERAL_CHECKIN_MINUTES)
                 THEN IF \E i \in 1..Len(st.important_memories) :
                             IsDue(st.important_memories[i], t)
                      THEN TRUE
                      ELSE TRUE
                 ELSE FALSE]

\* a loop that takes the due items out of the queue
MarkFollowedUp_Removes(memories, t) ==
    LET Pending(item) == ~IsDue(item, t)
    IN  SelectSeq(memories, Pending)

\* a loop that marks every item, due or not
MarkFollowedUp_All(memories, t) ==
    [i \in 1..Len(memories) |-> [memories[i] EXCEPT !.follow_up_needed = FALSE]]

\* the loop of generate_proactive_message over important_memories at time t:
\* every due item is marked followed up
MarkFollowedUp(memories, t) ==
    [i \in 1..Len(memories) |->
        IF IsDue(memories[i], t)
        THEN [memories[i] EXCEPT !.follow_up_needed = FALSE]
        ELSE memories[i]]

\* follow_up_context: the due items, in queue order
RECURSIVE FollowUpContext(_, _, _)
FollowUpContext(memories, i, t) ==
    IF i > Len(memories) THEN <<>>
    ELSE (IF IsDue(memories[i], t)
          THEN << [keyword |-> memories[i].keyword,
                   content |-> memories[i].content,
                   timestamp |-> IsoFormat(memories[i].timestamp)] >>
          ELSE <<>>)
         \o FollowUpContext(memories, i + 1, t)

\* a template table without a default: no text for the other keywords
FallbackTemplate_NoDefault(keyword) ==
    IF keyword = "meeting"
    THEN "Hey! I've been thinking about your meeting. How did it go?"
    ELSE ""

\* fallback_templates.get(keyword, default) of generate_proactive_message
\* (the texts without their emoji)
FallbackTemplate(keyword) ==
    CASE keyword = "meeting" ->
            "Hey! I've been thinking about your meeting. How did it go?"
      [] keyword = "interview" ->
            "I hope your interview went amazingly! I'm excited to hear how it went!"
      [] keyword = "exam" ->
            "How are you feeling after your exam? I hope it went better than expected!"
      [] keyword = "stressed" ->
            "I've been thinking about you since you mentioned feeling stressed. How are you doing now?"
      [] keyword = "worried" ->
            "Just wanted to check in - you seemed worried earlier. How are things going? I'm here if you need to talk"
      [] keyword = "excited" ->
            "I loved hearing your excitement earlier! How are things going with what you mentioned?"
      [] OTHER ->
            "Just thinking about our conversation earlier. How are you doing?"

\* fallback_messages of generate_proactive_message (without their emoji)
FallbackMessages ==
    << "Hope you're having a wonderful day! What's on your mind?",
       "Just wanted to check in and see how you're doing",
       "Thinking about you! How has your day been treating you?",
       "Hey there! I was wondering how you're feeling today" >>

\* the fallback text of generate_llm_response (without its emoji)
FallbackResponse ==
    "I'm having trouble connecting right now, but I want you to know I'm here for you  Could you tell me more about what's on your mind?"

(***************************************************************************)
(* The text-generation service.  A call either fails (raises) or returns   *)
(* a text; a streaming call either fails when it is created, or yields     *)
(* chunks and may raise after them.  llm is one outcome of one handler:    *)
(*   complete : [ok, text]           the non-streaming call                *)
(*   stream   : [created, chunks, raises]   the streaming call             *)
(*   pick     : the index random.choice draws                              *)
(***************************************************************************)
ReplyText == "Tell me more about it"

LLMOutcomes ==
    { [complete |-> [ok |-> TRUE, text |-> ReplyText],
       stream |-> [created |-> TRUE, chunks |-> <<"Tell me more", " about it">>,
                   raises |-> FALSE],
       pick |-> 1],
      [complete |-> [ok |-> FALSE, text |-> ""],
       stream |-> [created |-> FALSE, chunks |-> <<>>, raises |-> FALSE],
       pick |-> 2],
      [complete |-> [ok |-> FALSE, text |-> ""],
       stream |-> [created |-> TRUE, chunks |-> <<"Tell me more">>,
                   raises |-> TRUE],
       pick |-> 3] }

\* str.strip() of the characters at both ends
RECURSIVE LStrip(_)
LStrip(s) == IF s # "" /\ IsSpace(Head(s)) THEN LStrip(Tail(s)) ELSE s

RECURSIVE RStrip(_)
RStrip(s) ==
    IF s # "" /\ IsSpace(Char(s, Len(s))) THEN RStrip(SubSeq(s, 1, Len(s) - 1))
    ELSE s

Strip(s) == RStrip(LStrip(s))

\* SimpleAgent.generate_proactive_message() at time t with outcome llm:
\* the agent afterwards and the message returned
generate_proactive_message(st, t, llm) ==
    LET follow_up_context == FollowUpContext(st.important_memories, 1, t)
        st1 == [st EXCEPT !.important_memories = MarkFollowedUp(@, t)]
        text == IF llm.complete.ok
                THEN Strip(llm.complete.text)
                ELSE IF follow_up_context # <<>>
                     THEN FallbackTemplate(follow_up_context[1].keyword)
                     ELSE FallbackMessages[llm.pick]
    IN  [st |-> st1, ret |-> text,
         kind |-> IF follow_up_context # <<>> THEN "follow-up"
                  ELSE "general check-in"]

\* a search that looks at the content only
RECURSIVE RelevantMemories_ContentOnly(_, _, _)
RelevantMemories_ContentOnly(g, words, i) ==
    IF i > Len(g.order) THEN <<>>
    ELSE LET data    == g.nodes[g.order[i]]
             content == Lower(Get(data, "content", ""))
         IN  (IF Get(data, "type", "") = "memory"
                 /\ \E w \in 1..Len(words) : Contains(content, words[w])
              THEN << [content |-> Get(data, "content", ""),
                       keyword |-> Get(data, "keyword", ""),
                       timestamp |-> Get(data, "timestamp", "")] >>
              ELSE <<>>)
             \o RelevantMemories_ContentOnly(g, words, i + 1)

\* the matching memories of get_context_for_query, in graph iteration order
RECURSIVE RelevantMemories(_, _, _)
RelevantMemories(g, words, i) ==
    IF i > Len(g.order) THEN <<>>
    ELSE LET data    == g.nodes[g.order[i]]
             content == Lower(Get(data, "content", ""))
             keyword == Lower(Get(data, "keyword", ""))
         IN  (IF Get(data, "type", "") = "memory"
                 /\ \E w \in 1..Len(words) :
                        Contains(content, words[w]) \/ Contains(keyword, words[w])
              THEN << [content |-> Get(data, "content", ""),
                       keyword |-> Get(data, "keyword", ""),
                       timestamp |-> Get(data, "timestamp", "")] >>
              ELSE <<>>)
             \o RelevantMemories(g, words, i + 1)

\* "\n".join(parts)
RECURSIVE JoinLines(_, _)
JoinLines(parts, i) ==
    IF i > Len(parts) THEN ""
    ELSE (IF i > 1 THEN "\n" ELSE "") \o parts[i] \o JoinLines(parts, i + 1)

NoContext == "No previous context found."

\* a query that does not truncate to top_k
get_context_for_query_NoLimit(g, query_text, top_k) ==
    LET relevant_memories == RelevantMemories(g, Split(Lower(query_text)), 1)
        lines == [i \in 1..Len(relevant_memories) |->
                    Digits(i) \o ". [" \o relevant_memories[i].keyword \o "] "
                    \o relevant_memories[i].content \o " (at "
                    \o relevant_memories[i].timestamp \o ")"]
    IN  IF relevant_memories = <<>> THEN NoContext
        ELSE JoinLines(<<"RELEVANT MEMORIES:">> \o lines, 1)

\* GraphMemory.get_context_for_query(query_text, top_k)
get_context_for_query(g, query_text, top_k) ==
    LET found == RelevantMemories(g, Split(Lower(query_text)), 1)
        relevant_memories == SubSeq(found, 1, IF Len(found) < top_k THEN Len(found)
                                              ELSE top_k)
        lines == [i \in 1..Len(relevant_memories) |->
                    Digits(i) \o ". [" \o relevant_memories[i].keyword \o "] "
                    \o relevant_memories[i].content \o " (at "
                    \o relevant_memories[i].timestamp \o ")"]
    IN  IF relevant_memories = <<>> THEN NoContext
        ELSE JoinLines(<<"RELEVANT MEMORIES:">> \o lines, 1)

\* a slice that keeps the whole list
Suffix_Whole(xs, n) == xs

\* conversation_history[-n:]
Suffix(xs, n) == IF Len(xs) <= n THEN xs ELSE SubSeq(xs, Len(xs) - n + 1, Len(xs))

\* the request generate_llm_response and generate_llm_response_stream build
\* (the system prompt is the entry "SYSTEM PROMPT")
BuildRequest(st, user_message) ==
    LET graph_context == get_context_for_query(st.graph_memory, user_message, 3)
        recent_history == Suffix(st.conversation_history,
                                 MAX_CONVERSATION_CONTEXT * 2)
    IN  << [role |-> "system", content |-> "SYSTEM PROMPT"] >>
        \o (IF graph_context # "" /\ graph_context # NoContext
            THEN << [role |-> "system",
                     content |-> "Here's what I remember that might be relevant:\n"
                                 \o graph_context] >>
            ELSE <<>>)
        \o [i \in 1..Len(recent_history) |->
               [role |-> IF recent_history[i].sender = "user" THEN "user"
                         ELSE "assistant",
                content |-> recent_history[i].message]]
        \o << [role |-> "user", content |-> user_message] >>

\* SimpleAgent.generate_llm_response(user_message) with outcome llm
generate_llm_response(st, user_message, llm) ==
    IF llm.complete.ok THEN Strip(llm.complete.text) ELSE FallbackResponse

\* fallback_text.split() of generate_llm_response_stream
FallbackWords == Split(FallbackResponse)

\* SimpleAgent.generate_llm_response_stream(user_message) with outcome llm:
\* the service's stream of chunk objects, or the fallback generator, which
\* yields plain strings (word + " ")
generate_llm_response_stream(st, user_message, llm) ==
    IF llm.stream.created
    THEN [chunks |-> [i \in 1..Len(llm.stream.chunks) |->
                         [is_chunk_object |-> TRUE,
                          content |-> llm.stream.chunks[i]]],
          raises |-> llm.stream.raises]
    ELSE [chunks |-> [i \in 1..Len(FallbackWords) |->
                         [is_chunk_object |-> FALSE,
                          content |-> FallbackWords[i] \o " "]],
          raises |-> FALSE]

\* the loop `for chunk in stream` of app.py: the text gathered from the
\* chunks that have choices[0].delta.content
RECURSIVE GatherChunks(_, _)
GatherChunks(chunks, i) ==
    IF i > Len(chunks) THEN ""
    ELSE (IF chunks[i].is_chunk_object /\ chunks[i].content # ""
          THEN chunks[i].content ELSE "")
         \o GatherChunks(chunks, i + 1)

\* full_response of app.py's input handler
FullResponse(st, user_input, llm) ==
    LET stream == generate_llm_response_stream(st, user_input, llm)
    IN  IF stream.raises
        THEN generate_llm_response(st, user_input, llm)
        ELSE GatherChunks(stream.chunks, 1)

\* a handler that retrieves the context before it extracts from the message
respond_to_message_request_RetrieveFirst(st, user_message, t) ==
    LET st0 == [st EXCEPT !.last_interaction = t]
        st1 == extract_important_info(st0, user_message, t)
        st2 == [st1 EXCEPT !.graph_memory = st.graph_memory,
                           !.conversation_history =
                   Append(@, [sender |-> "user", message |-> user_message,
                              timestamp |-> t])]
    IN  BuildRequest(st2, user_message)

\* the messages list respond_to_message(user_message) hands to the text
\* generation call at time t: built by generate_llm_response after the user
\* turn was appended to the history
respond_to_message_request(st, user_message, t) ==
    LET st0 == [st EXCEPT !.last_interaction = t]
        st1 == extract_important_info(st0, user_message, t)
        st2 == [st1 EXCEPT !.conversation_history =
                   Append(@, [sender |-> "user", message |-> user_message,
                              timestamp |-> t])]
    IN  BuildRequest(st2, user_message)

\* a handler that saves its response before the user's message
respond_to_message_ReplyFirst(st, user_message, t, llm) ==
    LET st0 == [st EXCEPT !.last_interaction = t]
        st1 == extract_important_info(st0, user_message, t)
        response == generate_llm_response(st1, user_message, llm)
        st2 == [st1 EXCEPT !.conversation_history =
                   Append(@, [sender |-> "agent", message |-> response,
                              timestamp |-> t])]
    IN  [st  |-> [st2 EXCEPT !.conversation_history =
                     Append(@, [sender |-> "user", message |-> user_message,
                                timestamp |-> t])],
         ret |-> response]

\* SimpleAgent.respond_to_message(user_message) at time t with outcome llm:
\* the agent afterwards and the response returned
respond_to_message(st, user_message, t, llm) ==
    LET st0 == [st EXCEPT !.last_interaction = t]
        st1 == extract_important_info(st0, user_message, t)
        st2 == [st1 EXCEPT !.conversation_history =
                   Append(@, [sender |-> "user", message |-> user_message,
                              timestamp |-> t])]
        response == generate_llm_response(st2, user_message, llm)
    IN  [st  |-> [st2 EXCEPT !.conversation_history =
                     Append(@, [sender |-> "agent", message |-> response,
                                timestamp |-> t])],
         ret |-> response]

\* SimpleAgent.get_proactive_message_if_needed() at time t with outcome llm:
\* the agent afterwards and the value returned (is_none: it returned None)
get_proactive_message_if_needed(st, t, llm) ==
    LET check == should_send_proactive_message(st, t)
    IN  IF check.ret
        THEN LET gen == generate_proactive_message(check.st, t, llm)
             IN  [st |-> gen.st, ret |-> gen.ret, is_none |-> FALSE]
        ELSE [st |-> check.st, ret |-> "", is_none |-> TRUE]

(***************************************************************************)
(* The program's state as an agent value, and back.                        *)
(***************************************************************************)
Agent ==
    [conversation_history |-> conversation_history,
     important_memories |-> important_memories,
     last_interaction |-> last_interaction,
     graph_memory |-> graph]

SetAgent(st) ==
    /\ conversation_history' = st.conversation_history
    /\ important_memories' = st.important_memories
    /\ last_interaction' = st.last_interaction
    /\ graph' = st.graph_memory

\* SimpleAgent.__init__ at time t
NewAgent(t) ==
    [conversation_history |-> <<>>,
     important_memories |-> <<>>,
     last_interaction |-> t,
     graph_memory |-> NewGraph(t)]

(***************************************************************************)
(* app.py: the handlers.                                                   *)
(***************************************************************************)

\* a chat input handler that leaves last_interaction as it was
UserInput_NoTouch(user_input, llm) ==
    /\ steps < MaxSteps
    /\ LET st1 == extract_important_info(Agent, user_input, now)
           st2 == [st1 EXCEPT !.conversation_history =
                      Append(@, [sender |-> "user", message |-> user_input,
                                 timestamp |-> now])]
           full_response == FullResponse(st2, user_input, llm)
           st3 == [st2 EXCEPT !.conversation_history =
                      Append(@, [sender |-> "agent", message |-> full_response,
                                 timestamp |-> now])]
       IN  /\ SetAgent(st3)
           /\ messages' = messages \o
                << [sender |-> "user", message |-> user_input,
                    time |-> StrfTime(now), proactive |-> FALSE],
                   [sender |-> "agent", message |-> full_response,
                    time |-> StrfTime(now), proactive |-> FALSE] >>
           /\ call' = [op |-> "user_input", arg |-> user_input,
                       ret |-> full_response]
    /\ steps' = steps + 1
    /\ UNCHANGED now

\* the chat input handler (`if user_input:`)
UserInput(user_input, llm) ==
    /\ steps < MaxSteps
    /\ LET st0 == [Agent EXCEPT !.last_interaction = now]
           st1 == extract_important_info(st0, user_input, now)
           st2 == [st1 EXCEPT !.conversation_history =
                      Append(@, [sender |-> "user", message |-> user_input,
                                 timestamp |-> now])]
           full_response == FullResponse(st2, user_input, llm)
           st3 == [st2 EXCEPT !.conversation_history =
                      Append(@, [sender |-> "agent", message |-> full_response,
                                 timestamp |-> now])]
       IN  /\ SetAgent(st3)
           /\ messages' = messages \o
                << [sender |-> "user", message |-> user_input,
                    time |-> StrfTime(now), proactive |-> FALSE],
                   [sender |-> "agent", message |-> full_response,
                    time |-> StrfTime(now), proactive |-> FALSE] >>
           /\ call' = [op |-> "user_input", arg |-> user_input,
                       ret |-> full_response]
    /\ steps' = steps + 1
    /\ UNCHANGED now

\* a poll that does not reset last_interaction after sending
CheckProactive_NoReset(llm) ==
    /\ LET check == should_send_proactive_message(Agent, now)
       IN  IF check.ret
           THEN LET gen == generate_proactive_message(check.st, now, llm)
                IN  /\ SetAgent(gen.st)
                    /\ messages' = Append(messages,
                           [sender |-> "agent", message |-> gen.ret,
                            time |-> StrfTime(now), proactive |-> TRUE])
                    /\ call' = [op |-> "check_proactive_messages",
                                arg |-> gen.kind, ret |-> gen.ret]
           ELSE /\ SetAgent(check.st)
                /\ UNCHANGED <<messages, call>>
    /\ UNCHANGED <<now, steps>>

\* a poll that looks and never sends
CheckProactive_Idle(llm) ==
    /\ SetAgent(should_send_proactive_message(Agent, now).st)
    /\ UNCHANGED <<now, steps, messages, call>>

\* check_proactive_messages(): the polling fragment, also run by "Check Now"
CheckProactive(llm) ==
    /\ LET check == should_send_proactive_message(Agent, now)
       IN  IF check.ret
           THEN LET gen == generate_proactive_message(check.st, now, llm)
                IN  /\ SetAgent([gen.st EXCEPT !.last_interaction = now])
                    /\ messages' = Append(messages,
                           [sender |-> "agent", message |-> gen.ret,
                            time |-> StrfTime(now), proactive |-> TRUE])
                    /\ call' = [op |-> "check_proactive_messages",
                                arg |-> gen.kind, ret |-> gen.ret]
           ELSE /\ SetAgent(check.st)
                /\ UNCHANGED <<messages, call>>
    /\ UNCHANGED <<now, steps>>

\* the status displays: should_send_proactive_message() for the top bar and
\* the show_status fragment
Status ==
    /\ LET check == should_send_proactive_message(Agent, now)
       IN  SetAgent(check.st)
    /\ UNCHANGED <<now, steps, messages, call>>

\* the "Force Send" button
ForceSend(llm) ==
    /\ steps < MaxSteps
    /\ LET gen == generate_proactive_message(Agent, now, llm)
       IN  /\ SetAgent([gen.st EXCEPT !.last_interaction = now])
           /\ messages' = Append(messages,
                  [sender |-> "agent", message |-> gen.ret,
                   time |-> StrfTime(now), proactive |-> TRUE])
           /\ call' = [op |-> "force_send", arg |-> gen.kind, ret |-> gen.ret]
    /\ steps' = steps + 1
    /\ UNCHANGED now

\* the "Clear Chat" button
ClearChat ==
    /\ steps < MaxSteps
    /\ messages' = <<>>
    /\ conversation_history' = <<>>
    /\ important_memories' = <<>>
    /\ call' = [op |-> "clear_chat", arg |-> "", ret |-> ""]
    /\ steps' = steps + 1
    /\ UNCHANGED <<now, graph, last_interaction>>

\* time passes between two handler runs
Tick(d) ==
    /\ steps < MaxSteps
    /\ now' = now + d
    /\ steps' = steps + 1
    /\ UNCHANGED <<graph, conversation_history, important_memories,
                   last_interaction, messages, call>>

Init ==
    /\ now = 0
    /\ steps = 0
    /\ conversation_history = NewAgent(0).conversation_history
    /\ important_memories = NewAgent(0).important_memories
    /\ last_interaction = NewAgent(0).last_interaction
    /\ graph = NewAgent(0).graph_memory
    /\ messages = <<>>
    /\ call = [op |-> "init", arg |-> "", ret |-> ""]

Next ==
    \/ \E m \in Messages, llm \in LLMOutcomes : UserInput(m, llm)
    \/ \E llm \in LLMOutcomes : CheckProactive(llm)
    \/ Status
    \/ \E llm \in LLMOutcomes : ForceSend(llm)
    \/ ClearChat
    \/ \E d \in TickSteps : Tick(d)

Spec == Init /\ [][Next]_vars

(***************************************************************************)
(* Gated runs: user messages and polls only, no button of the side bar.    *)
(***************************************************************************)
NextGated ==
    \/ \E m \in Messages, llm \in LLMOutcomes : UserInput(m, llm)
    \/ \E llm \in LLMOutcomes : CheckProactive(llm)
    \/ \E d \in TickSteps : Tick(d)

SpecGated == Init /\ [][NextGated]_vars

(***************************************************************************)
(* The store on its own: GraphMemory driven through its public methods     *)
(* with arguments of the caller's choice.                                  *)
(***************************************************************************)
StoreNames == {USER, "Sarah", "work"}

StoreTypes == {"person", "topic"}

StoreAttributes == {[a |-> "1"], [b |-> "2"]}

StoreRelations == {"knows", "likes"}

StoreMessages == {"I have a meeting with Sarah tomorrow", "hello there"}

\* extracted_info values: none, and one entity with one relation
StoreInfos ==
    { EmptyDict,
      [keyword |-> "meeting",
       entities |-> << [name |-> "Sarah", type |-> "person",
                        attributes |-> [relation |-> "meeting"]] >>,
       relations |-> << [from |-> "Sarah", to |-> "work", type |-> "likes"] >>] }

\* the clock of the store advances by one second
StoreTickSteps == {1}

StoreAddEntity(entity_name, entity_type, attributes) ==
    /\ steps < MaxStoreOps
    /\ graph' = add_entity(graph, entity_name, entity_type, attributes, now)
    /\ steps' = steps + 1
    /\ UNCHANGED <<now, conversation_history, important_memories,
                   last_interaction, messages, call>>

StoreAddRelationship(from_entity, to_entity, relation_type) ==
    /\ steps < MaxStoreOps
    /\ graph' = add_relationship(graph, from_entity, to_entity, relation_type,
                                 EmptyDict, now)
    /\ steps' = steps + 1
    /\ UNCHANGED <<now, conversation_history, important_memories,
                   last_interaction, messages, call>>

StoreAddMemory(user_message, extracted_info) ==
    /\ steps < MaxStoreOps
    /\ graph' = add_memory_from_message(graph, user_message, extracted_info, now)
    /\ steps' = steps + 1
    /\ UNCHANGED <<now, conversation_history, important_memories,
                   last_interaction, messages, call>>

StoreTick(d) ==
    /\ steps < MaxStoreOps
    /\ now' = now + d
    /\ steps' = steps + 1
    /\ UNCHANGED <<graph, conversation_history, important_memories,
                   last_interaction, messages, call>>

NextStore ==
    \/ \E n \in StoreNames \ {USER}, ty \in StoreTypes, a \in StoreAttributes :
           StoreAddEntity(n, ty, a)
    \/ \E x \in StoreNames : \E y \in StoreNames \ {x}, r \in StoreRelations :
           StoreAddRelationship(x, y, r)
    \/ \E m \in StoreMessages, info \in StoreInfos : StoreAddMemory(m, info)
    \/ \E d \in StoreTickSteps : StoreTick(d)

SpecStore == Init /\ [][NextStore]_vars

(***************************************************************************)
(* The store with its files: the operations above on fewer arguments,     *)
(* export_graph followed by import_graph of the file written, and         *)
(* import_graph of a file found on disk.                                   *)
(***************************************************************************)
\* a graph with a memory, an entity and four edges, written at second 0
SampleGraph ==
    add_memory_from_message(NewGraph(0), "I have a meeting with Sarah tomorrow",
                            [keyword |-> "meeting",
                             entities |-> << [name |-> "Sarah", type |-> "person",
                                              attributes |-> [relation |-> "meeting"]] >>,
                             relations |-> << [from |-> "Sarah", to |-> "work",
                                               type |-> "likes"] >>], 0)

\* files that import_graph cannot load: text that is no JSON, a document
\* without "nodes", and a document whose last link has no "target"
MalformedFiles ==
    LET d == node_link_data(SampleGraph)
    IN  { [parses |-> FALSE],
          JsonDump([directed |-> TRUE, multigraph |-> FALSE,
                    graph |-> EmptyDict, links |-> <<>>]),
          JsonDump([d EXCEPT !.links =
                       [i \in 1..Len(d.links) |->
                           IF i = Len(d.links)
                           THEN Without(d.links[i], {"target"})
                           ELSE d.links[i]]]) }

\* files written by export_graph earlier
ExportedFiles == {export_graph(NewGraph(0)), export_graph(SampleGraph)}

StoreFiles == ExportedFiles \cup MalformedFiles

StoreExportImport ==
    /\ steps < MaxStoreOps
    /\ LET r == import_graph(graph, export_graph(graph))
       IN  /\ graph' = r.graph
           /\ call' = [op |-> "export_import", arg |-> "",
                       ret |-> IF r.raises THEN "raised" ELSE "loaded"]
    /\ steps' = steps + 1
    /\ UNCHANGED <<now, conversation_history, important_memories,
                   last_interaction, messages>>

StoreImport(file) ==
    /\ steps < MaxStoreOps
    /\ LET r == import_graph(graph, file)
       IN  /\ graph' = r.graph
           /\ call' = [op |-> "import_graph", arg |-> "",
                       ret |-> IF r.raises THEN "raised" ELSE "loaded"]
    /\ steps' = steps + 1
    /\ UNCHANGED <<now, conversation_history, important_memories,
                   last_interaction, messages>>

NextPersist ==
    \/ \E ty \in StoreTypes, a \in StoreAttributes : StoreAddEntity("Sarah", ty, a)
    \/ \E x \in {USER, "Sarah"} : \E y \in {"Sarah", "work"} \ {x} :
           StoreAddRelationship(x, y, "knows")
    \/ \E m \in StoreMessages, info \in StoreInfos : StoreAddMemory(m, info)
    \/ \E d \in StoreTickSteps : StoreTick(d)
    \/ StoreExportImport
    \/ \E file \in StoreFiles : StoreImport(file)

SpecPersist == Init /\ [][NextPersist]_vars

(***************************************************************************)
(* The store with its queries: the operations above on fewer arguments,   *)
(* get_related_memories and get_context_for_query.  A query leaves the    *)
(* graph alone and is not counted as a store operation; call records what *)
(* it returned.                                                            *)
(***************************************************************************)
QueryEntities == {USER, "Sarah", "work", "Bob"}

QueryTexts == {"", "meeting", "SARAH zzz", "zzz"}

QueryAttributes == { [content |-> "Meeting", keyword |-> "Work"], [a |-> "1"] }

QueryMessages == {"meet Sarah", "hi there"}

\* a query that creates the entity it is asked about
StoreGetRelated_AutoCreates(entity, max_depth) ==
    /\ graph' = NxAddNode(graph, entity, EmptyDict)
    /\ call' = [op |-> "get_related_memories", arg |-> entity, ret |-> "",
                memories |-> get_related_memories(graph, entity, max_depth)]
    /\ UNCHANGED <<now, steps, conversation_history, important_memories,
                   last_interaction, messages>>

StoreGetRelated(entity, max_depth) ==
    /\ call' = [op |-> "get_related_memories", arg |-> entity, ret |-> "",
                memories |-> get_related_memories(graph, entity, max_depth)]
    /\ UNCHANGED <<now, steps, graph, conversation_history, important_memories,
                   last_interaction, messages>>

StoreGetContext(query_text, top_k) ==
    /\ call' = [op |-> "get_context_for_query", arg |-> query_text,
                ret |-> get_context_for_query(graph, query_text, top_k),
                memories |-> <<>>]
    /\ UNCHANGED <<now, steps, graph, conversation_history, important_memories,
                   last_interaction, messages>>

NextQuery ==
    \/ \E a \in QueryAttributes : StoreAddEntity("work", "memory", a)
    \/ StoreAddRelationship(USER, "work", "knows")
    \/ \E m \in QueryMessages, info \in StoreInfos : StoreAddMemory(m, info)
    \/ \E d \in StoreTickSteps : StoreTick(d)
    \/ \E e \in {USER, "Bob"} : StoreGetRelated(e, MaxDepth)
    \/ \E q \in {"meeting", "zzz"} : StoreGetContext(q, 1)

SpecQuery == Init /\ [][NextQuery]_vars

(***************************************************************************)
(* Extraction on its own: extract_important_info applied to messages with  *)
(* several keywords, none, and capitalized words.                          *)
(***************************************************************************)
Extract(user_message) ==
    /\ steps < MaxSteps
    /\ SetAgent(extract_important_info(Agent, user_message, now))
    /\ steps' = steps + 1
    /\ UNCHANGED <<now, messages, call>>

NextExtract ==
    \/ \E m \in ExtractMessages : Extract(m)
    \/ \E d \in TickSteps : Tick(d)

SpecExtract == Init /\ [][NextExtract]_vars

(***************************************************************************)
(* The agent on its own: SimpleAgent driven through its methods, without   *)
(* the app around it.  Here call records every method call, with the clock *)
(* value at which it was made.                                             *)
(***************************************************************************)
AgentRespond(user_message, llm) ==
    /\ steps < MaxSteps
    /\ LET r == respond_to_message(Agent, user_message, now, llm)
       IN  /\ SetAgent(r.st)
           /\ call' = [op |-> "respond_to_message", arg |-> user_message,
                       ret |-> r.ret, at |-> now, is_none |-> FALSE]
    /\ steps' = steps + 1
    /\ UNCHANGED <<now, messages>>

AgentGetProactive(llm) ==
    /\ LET r == get_proactive_message_if_needed(Agent, now, llm)
       IN  /\ SetAgent(r.st)
           /\ call' = [op |-> "get_proactive_message_if_needed", arg |-> "",
                       ret |-> r.ret, at |-> now, is_none |-> r.is_none]
    /\ UNCHANGED <<now, steps, messages>>

NextAgent ==
    \/ \E m \in Messages, llm \in LLMOutcomes : AgentRespond(m, llm)
    \/ \E llm \in LLMOutcomes : AgentGetProactive(llm)
    \/ \E d \in TickSteps : Tick(d)

SpecAgent == Init /\ [][NextAgent]_vars

(***************************************************************************)
(* Conversations: user messages only, each handled by the chat handler of  *)
(* the app or by respond_to_message.                                       *)
(***************************************************************************)
NextChat ==
    \/ \E m \in Messages, llm \in LLMOutcomes : UserInput(m, llm)
    \/ \E m \in Messages, llm \in LLMOutcomes : AgentRespond(m, llm)

SpecChat == Init /\ [][NextChat]_vars

(***************************************************************************)
(* Long conversations: respond_to_message called often enough for the      *)
(* history to outgrow the window of the generation request.                *)
(***************************************************************************)
LongMessages == {"hello there", "I got the job", "feeling tired"}

\* the text generation succeeds; the request is built before it is called
LongOutcomes == {llm \in LLMOutcomes : llm.complete.ok}

LongRespond(user_message, llm) ==
    /\ steps < MaxTurns
    /\ LET r == respond_to_message(Agent, user_message, now, llm)
       IN  /\ SetAgent(r.st)
           /\ call' = [op |-> "respond_to_message", arg |-> user_message,
                       ret |-> r.ret, at |-> now, is_none |-> FALSE]
    /\ steps' = steps + 1
    /\ UNCHANGED <<now, messages>>

NextLong == \E m \in LongMessages, llm \in LongOutcomes : LongRespond(m, llm)

SpecLong == Init /\ [][NextLong]_vars

(***************************************************************************)
(* Gated runs in which the clock keeps advancing and the poll keeps        *)
(* running: the fragment check_proactive_messages is re-run every          *)
(* PROACTIVE_CHECK_FREQUENCY seconds for as long as the session lasts.     *)
(* The user sends at most MaxSteps messages.  The clock is followed up to  *)
(* the instant at which the poll is due to send (from then on the poll     *)
(* does the same whatever the hour), and after the last counted step only  *)
(* while a follow-up item is unresolved.                                   *)
(***************************************************************************)
LiveTick(d) ==
    /\ now - last_interaction <= Minutes(GENERAL_CHECKIN_MINUTES)
    /\ \/ steps < MaxSteps
       \/ \E i \in 1..Len(important_memories) : important_memories[i].follow_up_needed
    /\ now' = now + d
    /\ steps' = IF steps < MaxSteps THEN steps + 1 ELSE steps
    /\ UNCHANGED <<graph, conversation_history, important_memories,
                   last_interaction, messages, call>>

Poll == \E llm \in LLMOutcomes : CheckProactive(llm)

Clock == \E d \in TickSteps : LiveTick(d)

NextLive ==
    \/ \E m \in Messages, llm \in LongOutcomes : UserInput(m, llm)
    \/ Poll
    \/ Clock

SpecLive == Init /\ [][NextLive]_vars /\ WF_vars(Clock) /\ WF_vars(Poll)

(***************************************************************************)
(* Vocabulary of the properties.                                           *)
(***************************************************************************)
NodeCount(g) == Cardinality(DOMAIN g.nodes)

NodeType(g, n) == Get(g.nodes[n], "type", "")

MemoryNodes(g) == {n \in DOMAIN g.nodes : NodeType(g, n) = "memory"}

EdgeLabel(g, u, v) == Get(g.edges[<<u, v>>], "relation_type", "")

\* there is a directed path of at most l edges from u to v
RECURSIVE PathWithin(_, _, _, _)
PathWithin(g, u, v, l) ==
    \/ u = v
    \/ /\ l > 0
       /\ \E e \in DOMAIN g.edges : e[1] = u /\ PathWithin(g, e[2], v, l - 1)

\* the directed shortest-path distance from u to v (v reachable from u)
Distance(g, u, v) ==
    CHOOSE l \in 0..NodeCount(g) :
        PathWithin(g, u, v, l) /\ \A k \in 0..(l - 1) : ~PathWithin(g, u, v, k)

(***************************************************************************)
(* C1.  add_entity(id, t, {a: 1}) followed by add_entity(id, t, {b: 2}),   *)
(* on any store and whether or not the clock moves in between, leaves one  *)
(* node for id with a = 1, b = 2 and type = t; the two calls together add  *)
(* one node when id was new (none when it was there), the second call adds *)
(* none; the attributes the second call does not pass keep their values    *)
(* (created_at, which the store stamps itself on every call, is the        *)
(* subject of C20 and is left out here); no other node changes.            *)
(***************************************************************************)
C1_UpsertMerges ==
    \A id \in {USER, "Sarah", "Bob"}, ty \in StoreTypes, d \in {0, 1} :
        LET g1 == add_entity(graph, id, ty, [a |-> "1"], now)
            g2 == add_entity(g1, id, ty, [b |-> "2"], now + d)
        IN  /\ HasNode(g2, id)
            /\ Cardinality({i \in 1..Len(g2.order) : g2.order[i] = id}) = 1
            /\ Get(g2.nodes[id], "a", "") = "1"
            /\ Get(g2.nodes[id], "b", "") = "2"
            /\ Get(g2.nodes[id], "type", "") = ty
            /\ NodeCount(g1) = NodeCount(graph) + (IF HasNode(graph, id) THEN 0 ELSE 1)
            /\ NodeCount(g2) = NodeCount(g1)
            /\ \A k \in DOMAIN g1.nodes[id] \ {"b", "type", "created_at"} :
                   /\ k \in DOMAIN g2.nodes[id]
                   /\ g2.nodes[id][k] = g1.nodes[id][k]
            /\ \A n \in DOMAIN graph.nodes \ {id} :
                   HasNode(g2, n) /\ g2.nodes[n] = graph.nodes[n]

\* the store itself went through the two calls on "Sarah"
C1_Witness ==
    /\ HasNode(graph, "Sarah")
    /\ Get(graph.nodes["Sarah"], "a", "") = "1"
    /\ Get(graph.nodes["Sarah"], "b", "") = "2"
    /\ NodeCount(graph) = 2

(***************************************************************************)
(* C2.  Whatever add_entity, add_relationship and add_memory_from_message  *)
(* calls were made, both endpoints of every edge are nodes of the graph;   *)
(* and add_relationship(x, y, r) with x and y both absent leaves both      *)
(* present, of type unknown, and linked.                                   *)
(***************************************************************************)
C2_EdgesHaveEndpoints ==
    /\ \A e \in DOMAIN graph.edges : HasNode(graph, e[1]) /\ HasNode(graph, e[2])
    /\ \A x \in StoreNames \cup {"Bob"}, y \in StoreNames \cup {"Bob"},
          r \in StoreRelations :
           (~HasNode(graph, x) /\ ~HasNode(graph, y)) =>
               LET g2 == add_relationship(graph, x, y, r, EmptyDict, now)
               IN  /\ HasNode(g2, x) /\ NodeType(g2, x) = "unknown"
                   /\ HasNode(g2, y) /\ NodeType(g2, y) = "unknown"
                   /\ HasEdge(g2, x, y) /\ EdgeLabel(g2, x, y) = r

\* the store linked two names it did not hold
C2_Witness ==
    /\ HasEdge(graph, "Sarah", "work")
    /\ NodeType(graph, "Sarah") = "unknown"
    /\ NodeType(graph, "work") = "unknown"

(***************************************************************************)
(* C3.  From the agent's initialisation on and through any sequence of     *)
(* user messages, the node USER exists, has type user, and is the only     *)
(* node of type user.                                                      *)
(***************************************************************************)
C3_UserRootUnique ==
    /\ HasNode(graph, USER)
    /\ NodeType(graph, USER) = "user"
    /\ \A n \in DOMAIN graph.nodes : NodeType(graph, n) = "user" => n = USER

(***************************************************************************)
(* C4.  Every call of add_memory_from_message gets a fresh memory id: the  *)
(* number of memory nodes grows by exactly one and the memory nodes that   *)
(* were there keep their contents, also when two calls fall in the same    *)
(* clock second.                                                           *)
(***************************************************************************)
C4_FreshMemoryId ==
    [][\A m \in StoreMessages, info \in StoreInfos :
          StoreAddMemory(m, info) =>
              /\ Cardinality(MemoryNodes(graph')) = Cardinality(MemoryNodes(graph)) + 1
              /\ \A n \in MemoryNodes(graph) :
                     HasNode(graph', n) /\ graph'.nodes[n] = graph.nodes[n]]_vars

\* the clock values a run can show: sums of at most MaxSteps + 1 clock steps
ClockValues == {60 * a + 121 * b : a \in 0..(MaxSteps + 1), b \in 0..(MaxSteps + 1)}

(***************************************************************************)
(* C5.  In every state the agent reaches, each memory node has a           *)
(* has_memory edge from USER and a mentions edge to each entity extracted  *)
(* from its message; as this holds after every later operation too, no    *)
(* later operation changes these labels.                                   *)
(***************************************************************************)
C5_MemoryEdges ==
    \A n \in MemoryNodes(graph) :
        /\ HasEdge(graph, USER, n)
        /\ EdgeLabel(graph, USER, n) = "has_memory"
        /\ \E t \in ClockValues :
               /\ n = MessageId(t)
               /\ \A e \in Range(ExtractedInfo(graph.nodes[n]["content"],
                                               graph.nodes[n]["keyword"],
                                               t).entities) :
                      /\ HasEdge(graph, n, e.name)
                      /\ EdgeLabel(graph, n, e.name) = "mentions"

\* two messages were remembered one after the other, each with entities
C5_Witness ==
    Cardinality({n \in MemoryNodes(graph) :
                    \E e \in DOMAIN graph.edges :
                        e[1] = n /\ EdgeLabel(graph, e[1], e[2]) = "mentions"}) >= 2

(***************************************************************************)
(* C6.  get_related_memories(e, k) returns only memory nodes whose         *)
(* directed shortest-path distance from e is at most k, and the distance   *)
(* it reports for each is that shortest-path distance.                     *)
(***************************************************************************)
C6_RelatedWithinDepth ==
    \A e \in StoreNames \cup {"Bob"}, k \in 0..MaxDepth :
        LET memories == get_related_memories(graph, e, k)
        IN  \A i \in 1..Len(memories) :
                /\ HasNode(graph, memories[i].id)
                /\ NodeType(graph, memories[i].id) = "memory"
                /\ PathWithin(graph, e, memories[i].id, k)
                /\ memories[i].distance = Distance(graph, e, memories[i].id)
                /\ memories[i].distance <= k

\* some entity has a memory at distance 2 that depth 1 leaves out and depth 2
\* returns
C6_Witness ==
    \E e \in StoreNames :
        /\ HasNode(graph, e)
        /\ \E i \in 1..Len(get_related_memories(graph, e, 2)) :
               get_related_memories(graph, e, 2)[i].distance = 2
        /\ get_related_memories(graph, e, 1) = <<>>

\* the node type _add_to_graph_memory gives the entities of a keyword's
\* category ("" for a keyword of no category)
CategoryType(keyword) ==
    IF keyword \in {"friend", "family", "mom", "dad", "sister", "brother"}
    THEN "person"
    ELSE IF keyword \in {"meeting", "interview", "exam", "presentation",
                         "appointment"}
    THEN "event"
    ELSE IF keyword \in {"stressed", "worried", "excited", "nervous", "happy",
                         "sad", "anxious"}
    THEN "emotion"
    ELSE IF keyword \in {"job", "work", "school"}
    THEN "topic"
    ELSE ""

\* the indexes of the keywords that occur in the lower-cased message
Hits(user_message) ==
    {i \in 1..Len(IMPORTANT_KEYWORDS) : KeywordInMessage(i, user_message)}

(***************************************************************************)
(* C7.  For each message extract_important_info appends at most one        *)
(* follow-up item and writes at most one memory node: none when no keyword *)
(* occurs in the lower-cased message, else one, for the first keyword in   *)
(* IMPORTANT_KEYWORDS order that occurs; the only other nodes it adds or   *)
(* changes are entities of that keyword's category.                        *)
(***************************************************************************)
C7_FirstKeywordOnly ==
    \A m \in ExtractMessages :
        LET st2  == extract_important_info(Agent, m, now)
            g2   == st2.graph_memory
            old  == Len(important_memories)
        IN  /\ SubSeq(st2.important_memories, 1, old) = important_memories
            /\ Len(st2.important_memories) = old + (IF Hits(m) = {} THEN 0 ELSE 1)
            /\ Cardinality(MemoryNodes(g2) \ MemoryNodes(graph)) <= 1
            /\ MemoryNodes(graph) \subseteq MemoryNodes(g2)
            /\ Hits(m) = {} => g2 = graph
            /\ Hits(m) # {} =>
                   LET first   == CHOOSE i \in Hits(m) : \A j \in Hits(m) : i <= j
                       keyword == IMPORTANT_KEYWORDS[first]
                       item    == st2.important_memories[old + 1]
                   IN  /\ item.keyword = keyword
                       /\ item.content = m
                       /\ HasNode(g2, MessageId(now))
                       /\ g2.nodes[MessageId(now)]["keyword"] = keyword
                       /\ g2.nodes[MessageId(now)]["content"] = m
                       /\ \A n \in DOMAIN g2.nodes \ {MessageId(now)} :
                              (~HasNode(graph, n) \/ g2.nodes[n] # graph.nodes[n])
                                  => NodeType(g2, n) = CategoryType(keyword)

\* a message in which three keywords occur was remembered under the first
C7_Witness ==
    /\ Len(important_memories) = 1
    /\ Cardinality(Hits(important_memories[1].content)) >= 3
    /\ important_memories[1].keyword = "brother"
    /\ HasNode(graph, "Bob")
    /\ ~HasNode(graph, "sad")
    /\ ~HasNode(graph, "work")

(***************************************************************************)
(* C8.  should_send_proactive_message returns true exactly when the time   *)
(* since last_interaction is strictly greater than GENERAL_CHECKIN_MINUTES,*)
(* whatever the follow-up queue holds; when exactly                        *)
(* GENERAL_CHECKIN_MINUTES have passed it returns false.                   *)
(***************************************************************************)
C8_SendIffElapsed ==
    /\ should_send_proactive_message(Agent, now).ret
           = (now - last_interaction > Minutes(GENERAL_CHECKIN_MINUTES))
    /\ \A q \in {<<>>, important_memories, MarkFollowedUp(important_memories, now)} :
           should_send_proactive_message(
               [Agent EXCEPT !.important_memories = q], now).ret
               = (now - last_interaction > Minutes(GENERAL_CHECKIN_MINUTES))
    /\ ~should_send_proactive_message(
            Agent, last_interaction + Minutes(GENERAL_CHECKIN_MINUTES)).ret
    /\ should_send_proactive_message(
            Agent, last_interaction + Minutes(GENERAL_CHECKIN_MINUTES) + 1).ret

\* exactly GENERAL_CHECKIN_MINUTES after the last interaction, a follow-up due
C8_Witness ==
    /\ now - last_interaction = Minutes(GENERAL_CHECKIN_MINUTES)
    /\ \E i \in 1..Len(important_memories) : IsDue(important_memories[i], now)

(***************************************************************************)
(* C9.  should_send_proactive_message changes nothing of the agent (queue, *)
(* flags, last_interaction, history, graph), and a second call at the same *)
(* clock value returns the same boolean.                                   *)
(***************************************************************************)
C9_CheckIsPure ==
    LET first  == should_send_proactive_message(Agent, now)
        second == should_send_proactive_message(first.st, now)
    IN  /\ first.st = Agent
        /\ second.st = Agent
        /\ second.ret = first.ret

\* the check is made past the interval with a follow-up due
C9_Witness ==
    /\ now - last_interaction > Minutes(GENERAL_CHECKIN_MINUTES)
    /\ \E i \in 1..Len(important_memories) : IsDue(important_memories[i], now)
    /\ should_send_proactive_message(Agent, now).ret

(***************************************************************************)
(* C10.  With GENERAL_CHECKIN_MINUTES = 2, a poll made 3 minutes or more   *)
(* after the last interaction emits a proactive message and sets           *)
(* last_interaction to the time of sending, so that right afterwards       *)
(* should_send_proactive_message returns false and a repeated poll emits   *)
(* nothing.                                                                *)
(***************************************************************************)
C10_PollSendsOnce ==
    [][\A llm \in LLMOutcomes :
          (CheckProactive(llm) /\ now - last_interaction >= Minutes(3)) =>
              /\ Len(messages') = Len(messages) + 1
              /\ messages'[Len(messages')].proactive
              /\ messages'[Len(messages')].sender = "agent"
              /\ last_interaction' = now'
              /\ ~(should_send_proactive_message(Agent, now).ret)']_vars

\* the poll has just sent, three minutes or more into the run
C10_Witness ==
    /\ call.op = "check_proactive_messages"
    /\ now >= Minutes(3)
    /\ last_interaction = now
    /\ messages # <<>>
    /\ messages[Len(messages)].proactive

(***************************************************************************)
(* C11.  get_proactive_message_if_needed called again at the same clock    *)
(* value, with no user message in between, after a call that returned a    *)
(* proactive message, returns None: within one due window a message is     *)
(* returned at most once.                                                  *)
(***************************************************************************)
C11_CheckReturnsOnce ==
    [][\A llm \in LLMOutcomes :
          (/\ AgentGetProactive(llm)
           /\ call.op = "get_proactive_message_if_needed"
           /\ call.at = now
           /\ ~call.is_none) => call'.is_none]_vars

\* the indexes of the queue items that are due at time t
DueItems(memories, t) == {i \in 1..Len(memories) : IsDue(memories[i], t)}

(***************************************************************************)
(* C12.  One call of generate_proactive_message on a queue with several    *)
(* due items marks only the first of them (queue order) resolved: the      *)
(* other due items keep follow_up_needed = true.                           *)
(***************************************************************************)
C12_OnlyFirstDueResolved ==
    \A llm \in LLMOutcomes :
        LET due   == DueItems(important_memories, now)
            after == generate_proactive_message(Agent, now, llm).st.important_memories
        IN  due # {} =>
                LET first == CHOOSE i \in due : \A j \in due : i <= j
                IN  /\ Len(after) = Len(important_memories)
                    /\ ~after[first].follow_up_needed
                    /\ \A i \in due \ {first} : after[i].follow_up_needed

(***************************************************************************)
(* C13.  In every step, for every follow-up item that stays in the queue:  *)
(* an item with follow_up_needed = false keeps it false; an item goes from *)
(* true to false only in a step that runs generate_proactive_message (the  *)
(* poll or Force Send) and only if it is due (follow_up_after <= now);     *)
(* nothing else of the item changes.  So the flag falls at most once and   *)
(* never rises, and a pending item is never resolved.                      *)
(***************************************************************************)
C13_FlagFallsOnceWhenDue ==
    [][\A i \in 1..Len(important_memories) :
          i <= Len(important_memories') =>
              LET old == important_memories[i]
                  new == important_memories'[i]
              IN  /\ [new EXCEPT !.follow_up_needed = old.follow_up_needed] = old
                  /\ ~old.follow_up_needed => ~new.follow_up_needed
                  /\ (old.follow_up_needed /\ ~new.follow_up_needed) =>
                         /\ old.follow_up_after <= now
                         /\ \E llm \in LLMOutcomes :
                                CheckProactive(llm) \/ ForceSend(llm)]_vars

\* a proactive message has just resolved a due item
C13_Witness ==
    /\ call.op \in {"check_proactive_messages", "force_send"}
    /\ \E i \in 1..Len(important_memories) :
           /\ ~important_memories[i].follow_up_needed
           /\ important_memories[i].follow_up_after <= now

(***************************************************************************)
(* C14.  When text generation fails on the streaming reply path (the       *)
(* streaming call raises when it is created, or the stream raises          *)
(* mid-way), the reply the input handler assembles and appends to the      *)
(* conversation history is non-empty.                                      *)
(***************************************************************************)
C14_StreamFailureReplyNonEmpty ==
    [][\A m \in Messages, llm \in LLMOutcomes :
          (UserInput(m, llm) /\ (~llm.stream.created \/ llm.stream.raises)) =>
              /\ conversation_history' # <<>>
              /\ conversation_history'[Len(conversation_history')].sender = "agent"
              /\ conversation_history'[Len(conversation_history')].message # ""]_vars

(***************************************************************************)
(* C15.  When the text-generation call fails, generate_llm_response        *)
(* returns its fixed fallback text and generate_proactive_message returns  *)
(* a canned text: with a follow-up due, the template of the first due      *)
(* item's keyword (the default template for a keyword without one), else   *)
(* one of the generic check-in messages.  Both results are non-empty       *)
(* strings: nothing is raised to the caller.                               *)
(***************************************************************************)
C15_FallbackOnFailure ==
    \A llm \in LLMOutcomes :
        ~llm.complete.ok =>
            /\ \A m \in Messages :
                   /\ generate_llm_response(Agent, m, llm) = FallbackResponse
                   /\ generate_llm_response(Agent, m, llm) # ""
            /\ LET due == DueItems(important_memories, now)
                   ret == generate_proactive_message(Agent, now, llm).ret
               IN  /\ ret # ""
                   /\ due # {} =>
                          LET first == CHOOSE i \in due : \A j \in due : i <= j
                          IN  ret = FallbackTemplate(important_memories[first].keyword)
                   /\ due = {} =>
                          \E i \in 1..Len(FallbackMessages) : ret = FallbackMessages[i]

\* Force Send with the service down followed up a keyword that has no
\* template of its own
C15_Witness ==
    /\ call.op = "force_send"
    /\ call.arg = "follow-up"
    /\ call.ret = "Just thinking about our conversation earlier. How are you doing?"

\* C16: a graph written by export_graph and read back by import_graph has
\* the same nodes, the same edges and the same attributes on every node and
\* edge, whatever graph was in memory before the import.
C16_RoundTrip ==
    LET file == export_graph(graph)
    IN  \A before \in {graph, NewGraph(now), SampleGraph} :
            LET r == import_graph(before, file)
            IN  /\ ~r.raises
                /\ DOMAIN r.graph.nodes = DOMAIN graph.nodes
                /\ DOMAIN r.graph.edges = DOMAIN graph.edges
                /\ \A n \in DOMAIN graph.nodes : r.graph.nodes[n] = graph.nodes[n]
                /\ \A e \in DOMAIN graph.edges : r.graph.edges[e] = graph.edges[e]
                /\ Len(r.graph.order) = Cardinality(DOMAIN graph.nodes)
                /\ Len(r.graph.eorder) = Cardinality(DOMAIN graph.edges)

C16_Witness ==
    /\ call.op = "export_import"
    /\ call.ret = "loaded"
    /\ MemoryNodes(graph) # {}
    /\ Cardinality(DOMAIN graph.edges) >= 3
    /\ \E e \in DOMAIN graph.edges : graph.edges[e]["relation_type"] = "mentions"

\* C17: import_graph of a malformed file raises and leaves the graph in
\* memory as it was.
C17_FailedImportKeepsGraph ==
    \A file \in MalformedFiles :
        LET r == import_graph(graph, file)
        IN  /\ r.raises
            /\ r.graph = graph

C17_Witness ==
    /\ call.op = "import_graph"
    /\ call.ret = "raised"
    /\ MemoryNodes(graph) # {}
    /\ Cardinality(DOMAIN graph.edges) >= 2

\* C18: after the Clear Chat handler the conversation history is empty, the
\* follow-up queue is empty, and the graph holds only the USER node and no
\* edges.
C18_ClearResetsGraph ==
    call.op = "clear_chat" =>
        /\ conversation_history = <<>>
        /\ important_memories = <<>>
        /\ DOMAIN graph.nodes = {USER}
        /\ DOMAIN graph.edges = {}

NodesOfType(g, ty) == {n \in DOMAIN g.nodes : NodeType(g, n) = ty}

\* C19: from a graph holding only USER, handling "I have a meeting with
\* Sarah tomorrow" leaves one event node, one memory node with a has_memory
\* edge from USER and a mentions edge to the event, and get_graph_stats
\* reports total_memories = 1.
C19_EventMessageGraph ==
    [][\A llm \in LLMOutcomes :
          ( /\ DOMAIN graph.nodes = {USER}
            /\ DOMAIN graph.edges = {}
            /\ UserInput("I have a meeting with Sarah tomorrow", llm) )
          => /\ Cardinality(NodesOfType(graph', "event")) = 1
             /\ Cardinality(NodesOfType(graph', "memory")) = 1
             /\ \A m \in NodesOfType(graph', "memory") :
                    /\ HasEdge(graph', USER, m)
                    /\ EdgeLabel(graph', USER, m) = "has_memory"
                    /\ \A e \in NodesOfType(graph', "event") :
                           /\ HasEdge(graph', m, e)
                           /\ EdgeLabel(graph', m, e) = "mentions"
             /\ get_graph_stats(graph').total_memories = 1]_vars

\* the message was the first one handled
C19_Witness ==
    /\ call.op = "user_input"
    /\ call.arg = "I have a meeting with Sarah tomorrow"
    /\ Len(conversation_history) = 2
    /\ get_graph_stats(graph).total_memories = 1
    /\ NodesOfType(graph, "event") # {}

\* C20: add_entity on an identifier already in the graph, with attributes
\* that carry no created_at key, leaves the node's created_at as it was.
C20_CreatedAtKept ==
    [][\A n \in StoreNames \ {USER}, ty \in StoreTypes, a \in StoreAttributes :
          ( /\ HasNode(graph, n)
            /\ "created_at" \in DOMAIN graph.nodes[n]
            /\ StoreAddEntity(n, ty, a) )
          => graph'.nodes[n]["created_at"] = graph.nodes[n]["created_at"]]_vars

\* the memory node n matches the query: some token of the lower-cased
\* query is a substring of its lower-cased content or keyword
MatchesQuery(g, n, query_text) ==
    LET content == Lower(Get(g.nodes[n], "content", ""))
        keyword == Lower(Get(g.nodes[n], "keyword", ""))
    IN  \E token \in Range(Split(Lower(query_text))) :
            Contains(content, token) \/ Contains(keyword, token)

\* the matching memory nodes in graph insertion order
MatchingMemories(g, query_text) ==
    LET Test(n) == NodeType(g, n) = "memory" /\ MatchesQuery(g, n, query_text)
    IN  SelectSeq(g.order, Test)

ContextHeader == "RELEVANT MEMORIES:"

\* C21: get_context_for_query returns "No previous context found." exactly
\* when no memory node matches a token of the query; otherwise it returns a
\* list of memories.
C21_SentinelIffNoMatch ==
    \A q \in QueryTexts :
        LET nomatch == \A n \in MemoryNodes(graph) : ~MatchesQuery(graph, n, q)
        IN  \A k \in 1..MaxTopK :
                LET context == get_context_for_query(graph, q, k)
                IN  /\ (context = NoContext) <=> nomatch
                    /\ Split(Lower(q)) = <<>> => context = NoContext
                    /\ ~nomatch =>
                          /\ Len(context) > Len(ContextHeader) + 1
                          /\ SubSeq(context, 1, Len(ContextHeader) + 1)
                                = ContextHeader \o "\n"

\* a memory matches by its keyword only, another query finds nothing
C21_Witness ==
    /\ \E n \in MemoryNodes(graph) :
           /\ Contains(Lower(Get(graph.nodes[n], "keyword", "")), "meeting")
           /\ ~Contains(Lower(Get(graph.nodes[n], "content", "")), "meeting")
    /\ get_context_for_query(graph, "meeting", 1) # NoContext
    /\ get_context_for_query(graph, "zzz", 1) = NoContext
    /\ call.op = "get_context_for_query"
    /\ call.arg = "meeting"

\* C22: get_context_for_query lists the first top_k matching memory nodes
\* in graph insertion order, numbered from 1, and nothing else.
C22_FirstKInOrder ==
    \A q \in QueryTexts :
        LET matching == MatchingMemories(graph, q)
            line(i)  == Digits(i) \o ". ["
                        \o Get(graph.nodes[matching[i]], "keyword", "") \o "] "
                        \o Get(graph.nodes[matching[i]], "content", "") \o " (at "
                        \o Get(graph.nodes[matching[i]], "timestamp", "") \o ")"
            F[i \in 0..Len(matching)] ==
                IF i = 0 THEN ContextHeader ELSE F[i - 1] \o "\n" \o line(i)
        IN  \A k \in 1..MaxTopK :
                LET listed == IF Len(matching) < k THEN Len(matching) ELSE k
                IN  listed > 0 => get_context_for_query(graph, q, k) = F[listed]

\* two memories match, a third node does not, and top_k = 1 lists the first
C22_Witness ==
    /\ Len(MatchingMemories(graph, "meeting")) >= 2
    /\ \E n \in DOMAIN graph.nodes :
           \A i \in 1..Len(MatchingMemories(graph, "meeting")) :
               MatchingMemories(graph, "meeting")[i] # n
    /\ get_context_for_query(graph, "meeting", 1)
          # get_context_for_query(graph, "meeting", 2)
    /\ call.op = "get_context_for_query"

\* C23: get_related_memories of an identifier that is not in the graph
\* returns the empty sequence and leaves the graph as it was.
C23_UnknownEntity ==
    [][\A e \in QueryEntities :
          (StoreGetRelated(e, MaxDepth) /\ ~HasNode(graph, e))
          => /\ call'.memories = <<>>
             /\ graph' = graph
             /\ ~HasNode(graph', e)
             /\ \A k \in 0..MaxDepth : get_related_memories(graph', e, k) = <<>>]_vars

C23_Witness ==
    /\ call.op = "get_related_memories"
    /\ call.arg = "Bob"
    /\ call.memories = <<>>
    /\ ~HasNode(graph, "Bob")
    /\ get_related_memories(graph, USER, MaxDepth) # <<>>

\* C29: the result of get_related_memories is sorted by distance descending
\* and, among equal distances, by timestamp descending.
C29_SortedDescending ==
    \A e \in QueryEntities, k \in 0..MaxDepth :
        LET memories == get_related_memories(graph, e, k)
        IN  \A i \in 1..(Len(memories) - 1) :
                \/ memories[i].distance > memories[i + 1].distance
                \/ /\ memories[i].distance = memories[i + 1].distance
                   /\ ~StrLess(memories[i].timestamp, memories[i + 1].timestamp)

\* a returned result holds two memories at one distance with different
\* timestamps, the later one first
C29_Witness ==
    /\ \E i \in 1..(Len(get_related_memories(graph, USER, MaxDepth)) - 1) :
           LET memories == get_related_memories(graph, USER, MaxDepth)
           IN  /\ memories[i].distance = memories[i + 1].distance
               /\ StrLess(memories[i + 1].timestamp, memories[i].timestamp)
    /\ call.op = "get_related_memories"
    /\ call.arg = USER

\* C24: the conversation history is u1, r1, u2, r2, ...; handling a user
\* message, by respond_to_message or by the chat handler, whether the text
\* generation succeeds or fails, keeps the earlier turns as they are and
\* appends the user turn followed by one agent turn holding the reply.
C24_TurnsAlternate ==
    [][\A m \in Messages, llm \in LLMOutcomes :
          (call'.arg = m /\ (UserInput(m, llm) \/ AgentRespond(m, llm)))
          => LET n == Len(conversation_history)
             IN  /\ Len(conversation_history') = n + 2
                 /\ SubSeq(conversation_history', 1, n) = conversation_history
                 /\ conversation_history'[n + 1].sender = "user"
                 /\ conversation_history'[n + 1].message = m
                 /\ conversation_history'[n + 2].sender = "agent"
                 /\ conversation_history'[n + 2].message = call'.ret
                 /\ \A i \in 1..(n + 2) :
                        conversation_history'[i].sender
                            = IF i % 2 = 1 THEN "user" ELSE "agent"]_vars

\* a failed generation was followed by another message, and both handlers
\* have run
C24_Witness ==
    /\ Len(conversation_history) = 6
    /\ conversation_history[2].message = FallbackResponse
    /\ conversation_history[4].message = ReplyText
    /\ conversation_history[3].message # conversation_history[1].message
    /\ call.op = "user_input"
    /\ call.ret = FallbackResponse

\* the number of user entries of the request whose content is user_message
UserEntries(request, user_message) ==
    Cardinality({i \in 1..Len(request) :
                    request[i].role = "user" /\ request[i].content = user_message})

\* C30: the request built while answering a user message holds that message
\* once more than the history before the message did: the history suffix
\* added as context excludes the current message.
C30_CurrentMessageOnce ==
    \A m \in Messages :
        LET before == Suffix(conversation_history, MAX_CONVERSATION_CONTEXT * 2)
            earlier == Cardinality({i \in 1..Len(before) :
                                       /\ before[i].sender = "user"
                                       /\ before[i].message = m})
        IN  UserEntries(respond_to_message_request(Agent, m, now), m) = earlier + 1

\* the entries of a request after its system entries and before its last
\* entry: the conversation history handed to the text generation
HistoryEntries(request) ==
    LET Turn(e) == e.role # "system"
        turns   == SelectSeq(request, Turn)
    IN  SubSeq(turns, 1, Len(turns) - 1)

\* C25: the request built for a reply holds at most
\* 2 * MAX_CONVERSATION_CONTEXT turns of conversation history, and they are
\* the most recent turns of the history, in their order.
C25_WindowIsRecentSuffix ==
    \A m \in LongMessages :
        LET request == respond_to_message_request(Agent, m, now)
            turns   == HistoryEntries(request)
            full    == Append(conversation_history, [sender |-> "user", message |-> m])
            skipped == Len(full) - Len(turns)
        IN  /\ Len(turns) <= 2 * MAX_CONVERSATION_CONTEXT
            /\ Len(turns) = IF Len(full) < 2 * MAX_CONVERSATION_CONTEXT
                            THEN Len(full) ELSE 2 * MAX_CONVERSATION_CONTEXT
            /\ \A i \in 1..Len(turns) :
                   /\ turns[i].content = full[skipped + i].message
                   /\ turns[i].role = IF full[skipped + i].sender = "user"
                                      THEN "user" ELSE "assistant"
            /\ request[Len(request)] = [role |-> "user", content |-> m]

\* the last reply was generated from a history longer than the window
C25_Witness ==
    /\ Len(conversation_history) > 2 * MAX_CONVERSATION_CONTEXT + 1
    /\ call.op = "respond_to_message"
    /\ \E i \in 1..Len(conversation_history) :
           conversation_history[i].message # conversation_history[1].message

\* C26: handling a message in which no trigger keyword occurs leaves the
\* follow-up queue and the graph as they were.
C26_NoKeywordNoMemory ==
    [][\A m \in Messages, llm \in LLMOutcomes :
          ( /\ Hits(m) = {}
            /\ call'.arg = m
            /\ (UserInput(m, llm) \/ AgentRespond(m, llm)) )
          => /\ important_memories' = important_memories
             /\ graph' = graph]_vars

\* a message without keyword was handled after a message with one
C26_Witness ==
    /\ call.arg = "hello there"
    /\ Len(important_memories) = 1
    /\ Cardinality(MemoryNodes(graph)) = 1
    /\ Len(conversation_history) = 4
    /\ conversation_history[3].message = "hello there"

RelationalKeywords == {"friend", "family", "mom", "dad", "sister", "brother"}

\* the tokens of a message that start with an upper-case letter and are no
\* stopword
CapitalizedTokens(user_message) ==
    {w \in Range(Split(user_message)) :
        /\ \E i \in 1..Len(UpperChars) : Char(UpperChars, i) = Char(w, 1)
        /\ Lower(w) \notin {"i", "the", "a", "an"}}

\* C27: for a message whose first keyword is relational, every capitalized
\* token that is no stopword becomes a person entity with relation =
\* keyword, mentioned by the new memory and known by USER; no other token
\* becomes an entity.
C27_PersonEntities ==
    [][\A m \in ExtractMessages :
          ( /\ Hits(m) # {}
            /\ IMPORTANT_KEYWORDS[CHOOSE i \in Hits(m) : \A j \in Hits(m) : i <= j]
                   \in RelationalKeywords
            /\ Extract(m) )
          => LET keyword == IMPORTANT_KEYWORDS[CHOOSE i \in Hits(m) :
                                                  \A j \in Hits(m) : i <= j]
                 persons == CapitalizedTokens(m)
                 memory  == MessageId(now)
             IN  /\ \A w \in persons :
                        /\ HasNode(graph', w)
                        /\ NodeType(graph', w) = "person"
                        /\ Get(graph'.nodes[w], "relation", "") = keyword
                        /\ HasEdge(graph', memory, w)
                        /\ EdgeLabel(graph', memory, w) = "mentions"
                        /\ HasEdge(graph', USER, w)
                        /\ EdgeLabel(graph', USER, w) = "knows"
                 /\ DOMAIN graph'.nodes \ DOMAIN graph.nodes
                        \subseteq persons \cup {memory}
                 /\ \A w \in Range(Split(m)) \ persons :
                        /\ HasNode(graph', w) => HasNode(graph, w)
                        /\ HasNode(graph, w) => graph'.nodes[w] = graph.nodes[w]
                        /\ HasEdge(graph', memory, w) => HasEdge(graph, memory, w)]_vars

\* messages with a stopword token and with several capitalized tokens were
\* remembered under a relational keyword
C27_Witness ==
    /\ HasNode(graph, "Dad")
    /\ NodeType(graph, "Dad") = "person"
    /\ ~HasNode(graph, "I")
    /\ HasNode(graph, "Bob")
    /\ HasNode(graph, "Work")
    /\ ~HasNode(graph, "brother")
    /\ Get(graph.nodes["Bob"], "relation", "") = "brother"

\* C28: a step other than Clear Chat keeps every item of the follow-up
\* queue in its place, changes at most its follow_up_needed field, and
\* never shortens the queue.
C28_QueueOnlyGrows ==
    [][ClearChat
       \/ /\ Len(important_memories') >= Len(important_memories)
          /\ \A i \in 1..Len(important_memories) :
                 important_memories'[i]
                     = [important_memories[i] EXCEPT !.follow_up_needed =
                           important_memories'[i].follow_up_needed]]_vars

\* a poll sent a follow-up for a queue of two items
C28_Witness ==
    /\ call.op = "check_proactive_messages"
    /\ call.arg = "follow-up"
    /\ Len(important_memories) = 2
    /\ ~important_memories[1].follow_up_needed
    /\ important_memories[1].content # important_memories[2].content

\* C31: every follow-up item that a proactive message marks resolved is
\* referenced, by its keyword or its content, in the message returned.
C31_ResolvedIsReferenced ==
    [][\A i \in 1..Len(important_memories) :
          ( /\ i <= Len(important_memories')
            /\ important_memories[i].follow_up_needed
            /\ ~important_memories'[i].follow_up_needed )
          => \/ Contains(Lower(call'.ret), important_memories[i].keyword)
             \/ Contains(call'.ret, important_memories[i].content)]_vars

\* C32: the graph holds one edge per ordered pair; add_relationship on a
\* pair that already has an edge leaves the number of edges as it was and
\* sets the edge's relation_type to the one of this call.
C32_OneEdgePerPair ==
    [][\A x \in StoreNames : \A y \in StoreNames \ {x} : \A r \in StoreRelations :
          (HasEdge(graph, x, y) /\ StoreAddRelationship(x, y, r))
          => /\ DOMAIN graph'.edges = DOMAIN graph.edges
             /\ graph'.eorder = graph.eorder
             /\ Len(graph'.eorder) = Cardinality(DOMAIN graph'.edges)
             /\ EdgeLabel(graph', x, y) = r]_vars

\* a pair was linked, and linked again after the clock had advanced
C32_Witness ==
    /\ HasEdge(graph, USER, "Sarah")
    /\ NodeType(graph, "Sarah") = "unknown"
    /\ graph.nodes["Sarah"]["created_at"] = IsoFormat(0)
    /\ graph.edges[<<USER, "Sarah">>]["created_at"] = IsoFormat(1)
    /\ EdgeLabel(graph, USER, "Sarah") = "likes"
    /\ Cardinality(DOMAIN graph.edges) = 1

\* C33: a memory that has a mentions edge to an entity is among the
\* memories get_related_memories returns for that entity at depth >= 1.
C33_MentionedMemoryFound ==
    \A m \in MemoryNodes(graph) : \A e \in DOMAIN graph.nodes :
        (HasEdge(graph, m, e) /\ EdgeLabel(graph, m, e) = "mentions")
        => \A k \in 1..MaxDepth :
               \E i \in 1..Len(get_related_memories(graph, e, k)) :
                   get_related_memories(graph, e, k)[i].id = m

\* C39: add_relationship between two nodes that exist leaves the nodes and
\* their attributes as they were and changes the edge between them only.
C39_ExistingEndpointsKept ==
    [][\A x \in StoreNames : \A y \in StoreNames \ {x} : \A r \in StoreRelations :
          (HasNode(graph, x) /\ HasNode(graph, y) /\ StoreAddRelationship(x, y, r))
          => /\ graph'.nodes = graph.nodes
             /\ graph'.order = graph.order
             /\ DOMAIN graph'.edges = DOMAIN graph.edges \cup {<<x, y>>}
             /\ \A e \in DOMAIN graph.edges \ {<<x, y>>} :
                    graph'.edges[e] = graph.edges[e]
             /\ EdgeLabel(graph', x, y) = r]_vars

\* a person stored at second 0 was linked to USER one second later
C39_Witness ==
    /\ HasEdge(graph, "Sarah", USER)
    /\ NodeType(graph, "Sarah") = "person"
    /\ graph.nodes["Sarah"]["created_at"] = IsoFormat(0)
    /\ HasEdge(graph, "Sarah", USER)
    /\ graph.edges[<<"Sarah", USER>>]["created_at"] = IsoFormat(1)
    /\ NodeType(graph, USER) = "user"

\* the keywords _add_to_graph_memory stores as events
EventKeywords == {"meeting", "interview", "exam", "presentation", "appointment"}

\* C37: after a message whose first trigger keyword k is an event keyword
\* is handled on day d, the node k_d has type event, event_type k and the
\* message as description; a second such message on the same day shares
\* the node, whose description is then that of the later message.
C37_EventNodePerKeywordAndDay ==
    \A m \in ExtractMessages :
        Hits(m) # {} =>
            LET first   == CHOOSE i \in Hits(m) : \A j \in Hits(m) : i <= j
                keyword == IMPORTANT_KEYWORDS[first]
                name    == keyword \o "_" \o StrfDay(now)
                g2      == extract_important_info(Agent, m, now).graph_memory
            IN  keyword \in EventKeywords =>
                    /\ HasNode(g2, name)
                    /\ NodeType(g2, name) = "event"
                    /\ g2.nodes[name]["event_type"] = keyword
                    /\ g2.nodes[name]["description"] = m
                    /\ NodesOfType(g2, "event")
                           = NodesOfType(graph, "event") \cup {name}

\* two different meeting messages of one day are behind one event node,
\* which describes the later one
C37_Witness ==
    /\ Len(important_memories) = 2
    /\ important_memories[1].keyword = "meeting"
    /\ important_memories[2].keyword = "meeting"
    /\ important_memories[1].content # important_memories[2].content
    /\ DayOf(important_memories[1].timestamp) = DayOf(now)
    /\ Cardinality(NodesOfType(graph, "event")) = 1
    /\ \A n \in NodesOfType(graph, "event") :
           graph.nodes[n]["description"] = important_memories[2].content

\* C38: when a user message with a trigger keyword is handled, extraction
\* runs before retrieval: the request built for that message carries a
\* memory context, in which the message itself occurs, never the sentinel.
C38_OwnMemoryRetrieved ==
    \A m \in Messages :
        Hits(m) # {} =>
            LET request == respond_to_message_request(Agent, m, now)
                g2 == extract_important_info(Agent, m, now).graph_memory
            IN  /\ Len(request) >= 3
                /\ request[2].role = "system"
                /\ Contains(request[2].content, ContextHeader)
                /\ ~Contains(request[2].content, NoContext)
                /\ HasNode(g2, MessageId(now))
                /\ MatchesQuery(g2, MessageId(now), m)

\* a message with a keyword was the first one handled: only the memory made
\* from it could match
C38_Witness ==
    /\ call.op \in {"user_input", "respond_to_message"}
    /\ call.arg = "My friend USER is stressed"
    /\ Len(conversation_history) = 2
    /\ Cardinality(MemoryNodes(graph)) = 1
    /\ get_context_for_query(graph, call.arg, 3) # NoContext

\* the follow-up items that are not resolved
Pending(queue) == {i \in 1..Len(queue) : queue[i].follow_up_needed}

\* this step is a poll that emitted a proactive message
PollSent ==
    /\ Len(messages') = Len(messages) + 1
    /\ messages'[Len(messages')].proactive
    /\ call'.op = "check_proactive_messages"

\* this step resolved a pending item
ItemResolved ==
    \E i \in Pending(important_memories) :
        i <= Len(important_memories') /\ ~important_memories'[i].follow_up_needed

EmittedAt(time) == CHOOSE t \in ClockValues : StrfTime(t) = time

\* C35: in gated runs a proactive message is emitted, and an item resolved,
\* only when more than GENERAL_CHECKIN_MINUTES have passed since the latest
\* user message and since the latest proactive message.
C35_GatedByCheckin ==
    [][(PollSent \/ ItemResolved)
          => /\ \A i \in 1..Len(messages) :
                    (messages[i].sender = "user" \/ messages[i].proactive)
                    => now - EmittedAt(messages[i].time)
                           > Minutes(GENERAL_CHECKIN_MINUTES)
             /\ \A i \in 1..Len(conversation_history) :
                    conversation_history[i].sender = "user"
                    => now - conversation_history[i].timestamp
                           > Minutes(GENERAL_CHECKIN_MINUTES)]_vars

\* a second proactive message was emitted after a user message and a first
C35_Witness ==
    /\ call.op = "check_proactive_messages"
    /\ Len(messages) = 4
    /\ messages[1].sender = "user"
    /\ messages[3].proactive
    /\ messages[4].proactive
    /\ EmittedAt(messages[4].time) - EmittedAt(messages[3].time)
           > Minutes(GENERAL_CHECKIN_MINUTES)

\* C36: while the clock keeps advancing and the poll keeps running, once
\* the user sends no further message every follow-up item that needs a
\* follow-up is eventually marked resolved.
C36_EventuallyResolved ==
    \A i \in 1..MaxSteps :
        (i \in Pending(important_memories)) ~> (i \notin Pending(important_memories))

\* two items were pending and a poll has resolved both
C36_Witness ==
    /\ call.op = "check_proactive_messages"
    /\ Len(important_memories) = 2
    /\ Pending(important_memories) = {}
    /\ now - important_memories[2].timestamp > Minutes(GENERAL_CHECKIN_MINUTES)

====
